---- MODULE Spec2Model ----
(***************************************************************************)
(* Vacation offers comparison: the REST handlers of api/offers,           *)
(* api/offers/[id] and api/columns over the relational store (columns,    *)
(* offers, offer_values), and the display components' string parsers.     *)
(*                                                                         *)
(* Spec     : up to MaxInFlight handler  invocations in flight, interleaved *)
(*            at the granularity of their ORM calls, with ORM failures     *)
(*            and process crashes.                                         *)
(* SpecSeq  : one request at a time, each handler run to its end (or to    *)
(*            the crash or ORM failure that stops it).                     *)
(* SpecPrice: PriceDisplay applied to a price string.                      *)
(* SpecFlight: FlightDisplay applied to a flight string.                   *)
(* SpecRating: RatingDisplay mounted on a rating string.                   *)
(***************************************************************************)
EXTENDS Integers, Sequences, FiniteSets, Bags, TLC

VARIABLES db, inflight, last, nreq, priceString, priceView,
          flightString, flightView,
          ratingString, ratingView,
          columns, offers, event,
          cells,
          priceState, priceEdit

vars == <<db, inflight, last, nreq, priceString, priceView,
          flightString, flightView,
          ratingString, ratingView,
          columns, offers, event,
          cells,
          priceState, priceEdit>>

\* the server's state, the state of the display components, and the state
\* of the page (its local lists, and the handler it ran last)
server == <<db, inflight, last, nreq>>
page == <<columns, offers, event>>
display == <<priceString, priceView, flightString, flightView,
          ratingString, ratingView,
          cells,
          priceState, priceEdit>>

(***************************************************************************)
(* Bounds                                                                  *)
(***************************************************************************)
\* Requests received over a behaviour (caps the id generators as well).
MaxRequests == 3
\* Handler invocations that can be in flight at once.
MaxInFlight == 2
\* Longest array sent as "values".
MaxArrayLen == 1
\* Longest price string.
MaxPriceLen == 4
\* Most tokens in a flight string.
MaxFlightTokens == 4
\* Most tokens in a rating string.
MaxRatingTokens == 4
\* Most words in a column's fieldId and in its label.
MaxFieldWords == 1
MaxLabelWords == 2
\* Most edits in the price editor.
MaxEdits == 3

\* fieldIds sent by clients ("0" is also the key Object.entries gives the
\* first element of an array).
FieldIds == {"0", "cena"}
Labels == {"Cena"}
Undefined == "<undefined>"

(***************************************************************************)
(* JSON values of a request body and String(value)                         *)
(***************************************************************************)
JStr(s) == [t |-> "string", s |-> s, n |-> 0]
JNum(n) == [t |-> "number", s |-> "", n |-> n]
JNull == [t |-> "null", s |-> "", n |-> 0]

\* null in a component (and, for a component's state, no value)
Null == [null |-> TRUE]

JsonValues == {JStr(""), JNum(5)}

Digit == <<"0", "1", "2", "3", "4", "5", "6", "7", "8", "9">>

RECURSIVE NumberToString(_)
NumberToString(n) ==
    IF n < 10 THEN Digit[n + 1]
    ELSE NumberToString(n \div 10) \o Digit[(n % 10) + 1]

\* String(value) of route.ts
String(v) ==
    CASE v.t = "string" -> v.s
      [] v.t = "number" -> NumberToString(v.n)
      [] v.t = "null" -> "null"

(***************************************************************************)
(* Request bodies.  kind:                                                  *)
(*   "unparseable" request.json() throws                                   *)
(*   "null"        the body is JSON null: destructuring it throws          *)
(*   "missing"     no "values" member (typeof undefined)                   *)
(*   "scalar"      "values" is a string, number or boolean                 *)
(*   "valuesnull"  "values" is null                                        *)
(*   "array"       "values" is an array (typeof "object")                  *)
(*   "object"      "values" is an object                                   *)
(***************************************************************************)
EmptyObj == [k \in {} |-> JNull]

Objects == UNION {[S -> JsonValues] : S \in SUBSET FieldIds}
\* an array sent as `values`: its indices are the keys Object.entries yields
Arrays == UNION {[1..n -> {JNum(5)}] : n \in 0..MaxArrayLen}

OfferBody(kind, obj, arr) == [kind |-> kind, obj |-> obj, arr |-> arr]

MalformedOfferBodies ==
    {OfferBody(k, EmptyObj, <<>>) :
        k \in {"unparseable", "null", "missing", "scalar", "valuesnull"}}
ArrayOfferBodies == {OfferBody("array", EmptyObj, a) : a \in Arrays}
ObjectOfferBodies == {OfferBody("object", o, <<>>) : o \in Objects}
OfferBodies == MalformedOfferBodies \cup ArrayOfferBodies \cup ObjectOfferBodies

\* Body of POST /api/columns: {fieldId, label, icon}; a member may be missing.
ColumnBody(kind, fieldId, label) == [kind |-> kind, fieldId |-> fieldId, label |-> label]
ColumnBodies ==
    {ColumnBody(k, Undefined, Undefined) : k \in {"unparseable", "null"}}
    \cup {ColumnBody("object", f, l) :
            f \in FieldIds \cup {Undefined}, l \in Labels \cup {Undefined}}

\* typeof values !== 'object' || values === null
InvalidValuesMutant(body) == body.kind \in {"missing", "scalar"}
InvalidValues(body) == body.kind \in {"missing", "scalar", "valuesnull"}

\* await request.json() and the destructuring of its result
JsonThrows(body) == body.kind \in {"unparseable", "null"}

\* Object.entries(values).map(([fieldId, value]) => ({fieldId, value: String(value)}))
ObjectEntriesMutant(body) ==
    {[fieldId |-> k, value |-> String(body.obj[k])] :
        k \in {x \in DOMAIN body.obj : String(body.obj[x]) # ""}}
ObjectEntries(body) ==
    IF body.kind = "array"
    THEN {[fieldId |-> NumberToString(i - 1), value |-> String(body.arr[i])] :
             i \in DOMAIN body.arr}
    ELSE {[fieldId |-> k, value |-> String(body.obj[k])] : k \in DOMAIN body.obj}

(***************************************************************************)
(* The store: the three tables of the migration and the id generators.     *)
(***************************************************************************)
InitDb ==
    [columns |-> {}, offers |-> <<>>, offer_values |-> EmptyBag,
     nextOfferId |-> 1, nextColumnId |-> 1]

OfferIds(d) == {d.offers[i] : i \in DOMAIN d.offers}
Rows(d) == BagToSet(d.offer_values)
RowsOfOffer(d, id) == {r \in Rows(d) : r.offerId = id}
ColumnFieldIds(d) == {c.fieldId : c \in d.columns}

Row(id, e) == [offerId |-> id, fieldId |-> e.fieldId, value |-> e.value]

\* CREATE UNIQUE INDEX offer_values_offerId_fieldId_key
UniqueOfferFieldMutant(d, id, entries) == TRUE
UniqueOfferField(d, id, entries) ==
    \A e \in entries : \A r \in RowsOfOffer(d, id) : r.fieldId # e.fieldId

\* CREATE UNIQUE INDEX columns_fieldId_key
UniqueColumnFieldMutant(d, fieldId) == TRUE
UniqueColumnField(d, fieldId) == fieldId \notin ColumnFieldIds(d)

\* An ORM call's outcome: ok = FALSE when it throws (then d is unchanged);
\* code says why: "P2002" unique constraint, "P2025" record not found,
\* "validation" a required argument is missing, "unavailable" no database.
Ok(d, value) == [ok |-> TRUE, db |-> d, value |-> value, code |-> ""]
Throws(d, code) == [ok |-> FALSE, db |-> d, value |-> 0, code |-> code]

\* offer.values.reduce((acc, value) => { acc[value.fieldId] = value.value ... }, {})
ValuesMap(d, id) ==
    [f \in {r.fieldId : r \in RowsOfOffer(d, id)} |->
        (CHOOSE r \in RowsOfOffer(d, id) : r.fieldId = f).value]

TransformedOffer(d, id) == [id |-> id, values |-> ValuesMap(d, id)]

RECURSIVE Reverse(_)
Reverse(s) == IF s = <<>> THEN <<>> ELSE Append(Reverse(Tail(s)), Head(s))

\* prisma.offer.findMany({include: {values: true}, orderBy: {createdAt: 'desc'}})
OfferFindManyMutant(d) ==
    Ok(d, [i \in DOMAIN d.offers |-> TransformedOffer(d, d.offers[i])])
OfferFindMany(d) ==
    Ok(d, [i \in DOMAIN d.offers |-> TransformedOffer(d, Reverse(d.offers)[i])])

\* prisma.offer.create({data: {values: {create: [...]}}, include: {values: true}})
OfferCreate(d, entries) ==
    LET id == d.nextOfferId
        d2 == [d EXCEPT !.offers = Append(@, id),
                        !.nextOfferId = @ + 1,
                        !.offer_values = @ (+) SetToBag({Row(id, e) : e \in entries})]
    IN Ok(d2, TransformedOffer(d2, id))

\* prisma.offerValue.deleteMany({where: {offerId: id}})
OfferValueDeleteManyOfOfferMutant(d, id) == Ok(d, 0)
OfferValueDeleteManyOfOffer(d, id) ==
    Ok([d EXCEPT !.offer_values =
            [r \in {x \in DOMAIN @ : x.offerId # id} |-> @[r]]], 0)

\* prisma.offerValue.deleteMany({where: {fieldId}})
OfferValueDeleteManyOfFieldMutant(d, fieldId) == Ok(d, 0)
OfferValueDeleteManyOfField(d, fieldId) ==
    Ok([d EXCEPT !.offer_values =
            [r \in {x \in DOMAIN @ : x.fieldId # fieldId} |-> @[r]]], 0)

\* prisma.offer.update({where: {id}, data: {values: {create: [...]}}, include: ...})
\* The nested create is part of the one call: all rows or none.
OfferUpdate(d, id, entries) ==
    IF id \notin OfferIds(d) THEN Throws(d, "P2025")
    ELSE IF ~UniqueOfferField(d, id, entries) THEN Throws(d, "P2002")
    ELSE LET d2 == [d EXCEPT !.offer_values =
                        @ (+) SetToBag({Row(id, e) : e \in entries})]
         IN Ok(d2, TransformedOffer(d2, id))

\* ON DELETE CASCADE of offer_values_offerId_fkey
CascadeOfferValuesMutant(b, id) == b
CascadeOfferValues(b, id) == [r \in {x \in DOMAIN b : x.offerId # id} |-> b[r]]

\* prisma.offer.delete({where: {id}})
OfferDelete(d, id) ==
    IF id \notin OfferIds(d)
    THEN Throws(d, "P2025")
    ELSE Ok([d EXCEPT !.offers = SelectSeq(@, LAMBDA x : x # id),
                      !.offer_values = CascadeOfferValues(@, id)], 0)

Max(S) == CHOOSE x \in S : \A y \in S : y <= x
Min(S) == CHOOSE x \in S : \A y \in S : x <= y

\* prisma.column.findFirst({orderBy: {order: 'desc'}}), then (lastColumn?.order ?? -1) + 1
ColumnNextOrder(d) ==
    Ok(d, IF d.columns = {} THEN 0 ELSE Max({c.order : c \in d.columns}) + 1)

\* prisma.column.create({data: {fieldId, label, icon, order}})
ColumnCreate(d, fieldId, label, order) ==
    IF fieldId = Undefined \/ label = Undefined THEN Throws(d, "validation")
    ELSE IF ~UniqueColumnField(d, fieldId) THEN Throws(d, "P2002")
    ELSE LET c == [id |-> d.nextColumnId, fieldId |-> fieldId,
                   label |-> label, order |-> order]
         IN Ok([d EXCEPT !.columns = @ \cup {c}, !.nextColumnId = @ + 1], c)

\* prisma.column.delete({where: {fieldId}})
ColumnDelete(d, fieldId) ==
    IF fieldId \notin ColumnFieldIds(d)
    THEN Throws(d, "P2025")
    ELSE Ok([d EXCEPT !.columns = {c \in @ : c.fieldId # fieldId}], 0)

\* prisma.column.findMany({orderBy: {order: 'asc'}}): the rows, each with its order
ColumnFindMany(d) == Ok(d, d.columns)

(***************************************************************************)
(* Handlers.  A handler is a sequence of steps, one ORM call each; a step  *)
(* either sends the response (done) or goes on to the next ORM call.       *)
(* fail: the ORM call of the step throws (the database cannot be reached). *)
(***************************************************************************)
\* An outcome's calls: the ORM calls of the step that returned (0 or 1).
NoResp == [status |-> 0, error |-> "", payload |-> 0]

\* NextResponse.json(payload, {status})
Respond(d, status, payload) ==
    [db |-> d, done |-> TRUE, threw |-> "none", order |-> 0, calls |-> 1,
     resp |-> [status |-> status, error |-> "", payload |-> payload]]

\* NextResponse.json({error}, {status: 400})
BadRequest(d, error) ==
    [db |-> d, done |-> TRUE, threw |-> "none", order |-> 0, calls |-> 0,
     resp |-> [status |-> 400, error |-> error, payload |-> 0]]

\* catch (error) { console.error(...); return NextResponse.json({error}, {status: 500}) }
Catch(d, error, threw) ==
    [db |-> d, done |-> TRUE, threw |-> threw, order |-> 0, calls |-> 0,
     resp |-> [status |-> 500, error |-> error, payload |-> 0]]

\* the handler goes on to its next ORM call
Continue(d, order) ==
    [db |-> d, done |-> FALSE, threw |-> "none", order |-> order, calls |-> 1,
     resp |-> NoResp]

\* the process dies before the handler's next ORM call
Stopped(d) ==
    [db |-> d, done |-> TRUE, threw |-> "crash", order |-> 0, calls |-> 0,
     resp |-> NoResp]

Orm(fail, d, result) == IF fail THEN Throws(d, "unavailable") ELSE result

\* GET /api/offers
OffersGET(d, fail) ==
    LET o == Orm(fail, d, OfferFindMany(d))
    IN IF o.ok THEN Respond(d, 200, o.value)
       ELSE Catch(d, "Failed to fetch offers", o.code)

\* POST /api/offers
OffersPOST(d, body, fail) ==
    IF JsonThrows(body) THEN Catch(d, "Failed to create offer", "json")
    ELSE IF InvalidValues(body)
    THEN BadRequest(d, "Invalid values format. Expected an object.")
    ELSE LET o == Orm(fail, d, OfferCreate(d, ObjectEntries(body)))
         IN IF o.ok THEN Respond(o.db, 201, o.value)
            ELSE Catch(d, "Failed to create offer", o.code)

\* PUT /api/offers/{id}: up to and including offerValue.deleteMany
OfferPUTDeleteMany(d, id, body, fail) ==
    IF JsonThrows(body) THEN Catch(d, "Failed to update offer", "json")
    ELSE IF InvalidValues(body)
    THEN BadRequest(d, "Invalid values format. Expected an object.")
    ELSE LET o == Orm(fail, d, OfferValueDeleteManyOfOffer(d, id))
         IN IF o.ok THEN Continue(o.db, 0)
            ELSE Catch(d, "Failed to update offer", o.code)

\* PUT /api/offers/{id}: offer.update with the nested create, and the response
OfferPUTUpdate(d, id, body, fail) ==
    LET o == Orm(fail, d, OfferUpdate(d, id, ObjectEntries(body)))
    IN IF o.ok THEN Respond(o.db, 200, o.value)
       ELSE Catch(d, "Failed to update offer", o.code)

\* DELETE /api/offers/{id}
OfferDELETEMutant(d, id, fail) ==
    LET o == Orm(fail, d, OfferDelete(d, id))
    IN [Respond(o.db, 200, 0) EXCEPT !.threw = IF o.ok THEN "none" ELSE o.code]
OfferDELETE(d, id, fail) ==
    LET o == Orm(fail, d, OfferDelete(d, id))
    IN IF o.ok THEN Respond(o.db, 200, 0)
       ELSE Catch(d, "Failed to delete offer", o.code)

\* GET /api/columns
ColumnsGET(d, fail) ==
    LET o == Orm(fail, d, ColumnFindMany(d))
    IN IF o.ok THEN Respond(d, 200, o.value)
       ELSE Catch(d, "Failed to fetch columns", o.code)

\* POST /api/columns: up to and including column.findFirst
ColumnsPOSTFindFirst(d, body, fail) ==
    IF JsonThrows(body) THEN Catch(d, "Failed to create column", "json")
    ELSE LET o == Orm(fail, d, ColumnNextOrder(d))
         IN IF o.ok THEN Continue(d, o.value)
            ELSE Catch(d, "Failed to create column", o.code)

\* POST /api/columns: column.create and the response
ColumnsPOSTCreate(d, body, order, fail) ==
    LET o == Orm(fail, d, ColumnCreate(d, body.fieldId, body.label, order))
    IN IF o.ok THEN Respond(o.db, 200, o.value)
       ELSE Catch(d, "Failed to create column", o.code)

\* DELETE /api/columns?fieldId=: up to and including offerValue.deleteMany
ColumnsDELETEDeleteMany(d, fieldId, fail) ==
    IF fieldId \in {Undefined, ""} THEN BadRequest(d, "fieldId is required")
    ELSE LET o == Orm(fail, d, OfferValueDeleteManyOfField(d, fieldId))
         IN IF o.ok THEN Continue(o.db, 0)
            ELSE Catch(d, "Failed to delete column", o.code)

\* DELETE /api/columns?fieldId=: column.delete and the response
ColumnsDELETEDelete(d, fieldId, fail) ==
    LET o == Orm(fail, d, ColumnDelete(d, fieldId))
    IN IF o.ok THEN Respond(o.db, 200, 0)
       ELSE Catch(d, "Failed to delete column", o.code)

\* The fixed message of each handler's catch block.
ErrorMessage(op) ==
    CASE op = "GET /api/offers" -> "Failed to fetch offers"
      [] op = "POST /api/offers" -> "Failed to create offer"
      [] op = "PUT /api/offers/{id}" -> "Failed to update offer"
      [] op = "DELETE /api/offers/{id}" -> "Failed to delete offer"
      [] op = "GET /api/columns" -> "Failed to fetch columns"
      [] op = "POST /api/columns" -> "Failed to create column"
      [] op = "DELETE /api/columns" -> "Failed to delete column"

(***************************************************************************)
(* Requests                                                                *)
(***************************************************************************)
NoBody == OfferBody("none", EmptyObj, <<>>)
Idle == [op |-> "idle", id |-> 0, fieldId |-> "", body |-> NoBody, order |-> 0]
Request(op, id, fieldId, body) ==
    [op |-> op, id |-> id, fieldId |-> fieldId, body |-> body, order |-> 0]

\* ids a client can name: every id issued so far, and UnknownId for all the
\* ids that no offer has or will have (ids are random, never guessed ahead)
UnknownId == 0
RequestIds(d) == {UnknownId} \cup 1..(d.nextOfferId - 1)

\* The request served last: what the client sees of it (the status and the
\* error message), what was thrown on the way, and the number of ORM calls
\* that returned (an invocation in flight is past its first call,
\* and its second is its last).
Seen(resp) == [status |-> resp.status, error |-> resp.error]
\* Under Spec the record keeps the route and its parameters, not the body.
Summary(r) == [r EXCEPT !.body = NoBody, !.order = 0]
NoLast == [req |-> Idle, resp |-> Seen(NoResp), threw |-> "none", calls |-> 0]
Completed(r, out, before) ==
    [req |-> r, resp |-> Seen(out.resp), threw |-> out.threw,
     calls |-> before + out.calls]
Crashed(r) == [req |-> r, resp |-> Seen(NoResp), threw |-> "crash", calls |-> 0]

\* The handler the page ran last: the body it passed to fetch (NoBody when
\* it called no fetch) and whether that fetch was rejected (no response).
NoEvent == [handler |-> "none", body |-> NoBody, rejected |-> FALSE]

Init ==
    /\ db = InitDb
    /\ inflight = EmptyBag
    /\ last = NoLast
    /\ nreq = 0
    /\ priceString = <<>>
    /\ priceView = [kind |-> "none"]
    /\ flightString = <<>>
    /\ flightView = [kind |-> "none"]
    /\ ratingString = <<>>
    /\ ratingView = [kind |-> "none"]
    /\ columns = <<>>
    /\ offers = <<>>
    /\ event = NoEvent
    /\ cells = <<>>
    /\ priceState = Null
    /\ priceEdit = [kind |-> "none", pending |-> FALSE, n |-> 0]

(***************************************************************************)
(* Spec: interleaved handlers.  inflight holds the invocations that have   *)
(* made their first ORM call and not yet their last.                       *)
(***************************************************************************)
Receives == BagCardinality(inflight) < MaxInFlight /\ nreq < MaxRequests

InFlight(op) == {r \in BagToSet(inflight) : r.op = op}

\* the first step of a handler, taken as the request arrives
FirstStep(r, out) ==
    /\ Receives
    /\ nreq' = nreq + 1
    /\ db' = out.db
    /\ IF out.done
       THEN /\ inflight' = inflight
            /\ last' = Completed(Summary(r), out, 0)
       ELSE /\ inflight' = inflight (+) SetToBag({[r EXCEPT !.order = out.order]})
            /\ last' = last
    /\ UNCHANGED <<display, page>>

\* the last step of a handler
LastStep(r, out) ==
    /\ db' = out.db
    /\ inflight' = inflight (-) SetToBag({r})
    /\ last' = Completed(Summary(r), out, 1)
    /\ UNCHANGED <<nreq, display, page>>

GetOffers ==
    \E fail \in BOOLEAN :
        FirstStep(Request("GET /api/offers", 0, "", NoBody), OffersGET(db, fail))

PostOffer ==
    \E body \in OfferBodies, fail \in BOOLEAN :
        FirstStep(Request("POST /api/offers", 0, "", body), OffersPOST(db, body, fail))

PutOfferDeleteMany ==
    \E id \in RequestIds(db), body \in OfferBodies, fail \in BOOLEAN :
        FirstStep(Request("PUT /api/offers/{id}", id, "", body),
                  OfferPUTDeleteMany(db, id, body, fail))

PutOfferUpdate ==
    \E r \in InFlight("PUT /api/offers/{id}"), fail \in BOOLEAN :
        LastStep(r, OfferPUTUpdate(db, r.id, r.body, fail))

DeleteOffer ==
    \E id \in RequestIds(db), fail \in BOOLEAN :
        FirstStep(Request("DELETE /api/offers/{id}", id, "", NoBody),
                  OfferDELETE(db, id, fail))

GetColumns ==
    \E fail \in BOOLEAN :
        FirstStep(Request("GET /api/columns", 0, "", NoBody), ColumnsGET(db, fail))

PostColumnFindFirst ==
    \E body \in ColumnBodies, fail \in BOOLEAN :
        FirstStep(Request("POST /api/columns", 0, "", body),
                  ColumnsPOSTFindFirst(db, body, fail))

PostColumnCreate ==
    \E r \in InFlight("POST /api/columns"), fail \in BOOLEAN :
        LastStep(r, ColumnsPOSTCreate(db, r.body, r.order, fail))

DeleteColumnDeleteMany ==
    \E fieldId \in FieldIds \cup {Undefined}, fail \in BOOLEAN :
        FirstStep(Request("DELETE /api/columns", 0, fieldId, NoBody),
                  ColumnsDELETEDeleteMany(db, fieldId, fail))

DeleteColumnDelete ==
    \E r \in InFlight("DELETE /api/columns"), fail \in BOOLEAN :
        LastStep(r, ColumnsDELETEDelete(db, r.fieldId, fail))

\* the server process dies: every handler in flight stops where it is
Crash ==
    /\ inflight # EmptyBag
    /\ inflight' = EmptyBag
    /\ last' = Crashed(Idle)
    /\ UNCHANGED <<db, nreq, display, page>>

Next ==
    \/ GetOffers
    \/ PostOffer
    \/ PutOfferDeleteMany
    \/ PutOfferUpdate
    \/ DeleteOffer
    \/ GetColumns
    \/ PostColumnFindFirst
    \/ PostColumnCreate
    \/ DeleteColumnDeleteMany
    \/ DeleteColumnDelete
    \/ Crash

Spec == Init /\ [][Next]_vars

(***************************************************************************)
(* SpecSeq: one request at a time.  A handler runs from the arrival of the *)
(* request to its response, or to the crash that stops it between its two  *)
(* ORM calls; last keeps the whole request and the whole response.         *)
(***************************************************************************)
\* What goes wrong while a handler of two ORM calls runs: nothing, its first
\* ORM call throws, the process dies between the two, or its second throws.
Faults == {"none", "first", "crash", "second"}

\* the outcome of a handler of two ORM calls: first, then (unless it ended
\* or the process died) second
Then(first, fault, second) ==
    IF first.done THEN first
    ELSE IF fault = "crash" THEN [Stopped(first.db) EXCEPT !.calls = first.calls]
    ELSE [second EXCEPT !.calls = first.calls + @]

\* PUT /api/offers/{id}
OfferPUT(d, id, body, fault) ==
    LET first == OfferPUTDeleteMany(d, id, body, fault = "first")
    IN Then(first, fault, OfferPUTUpdate(first.db, id, body, fault = "second"))

\* POST /api/columns
ColumnsPOST(d, body, fault) ==
    LET first == ColumnsPOSTFindFirst(d, body, fault = "first")
    IN Then(first, fault, ColumnsPOSTCreate(first.db, body, first.order, fault = "second"))

\* DELETE /api/columns?fieldId=
ColumnsDELETE(d, fieldId, fault) ==
    LET first == ColumnsDELETEDeleteMany(d, fieldId, fault = "first")
    IN Then(first, fault, ColumnsDELETEDelete(first.db, fieldId, fault = "second"))

\* the server runs the handler of request r to its end
Handle(r, out) ==
    /\ inflight = EmptyBag
    /\ nreq < MaxRequests
    /\ nreq' = nreq + 1
    /\ db' = out.db
    /\ last' = [Completed(r, out, 0) EXCEPT !.resp = out.resp]
    /\ UNCHANGED <<inflight, display>>

\* a request of another client
Serve(r, out) ==
    /\ Handle(r, out)
    /\ event' = NoEvent
    /\ UNCHANGED <<columns, offers>>

SeqGetOffers ==
    \E fail \in BOOLEAN :
        Serve(Request("GET /api/offers", 0, "", NoBody), OffersGET(db, fail))

SeqPostOffer ==
    \E body \in OfferBodies, fail \in BOOLEAN :
        Serve(Request("POST /api/offers", 0, "", body), OffersPOST(db, body, fail))

SeqPutOffer ==
    \E id \in RequestIds(db), body \in OfferBodies, fault \in Faults :
        Serve(Request("PUT /api/offers/{id}", id, "", body),
              OfferPUT(db, id, body, fault))

SeqDeleteOffer ==
    \E id \in RequestIds(db), fail \in BOOLEAN :
        Serve(Request("DELETE /api/offers/{id}", id, "", NoBody), OfferDELETE(db, id, fail))

SeqGetColumns ==
    \E fail \in BOOLEAN :
        Serve(Request("GET /api/columns", 0, "", NoBody), ColumnsGET(db, fail))

SeqPostColumn ==
    \E body \in ColumnBodies, fault \in Faults :
        Serve(Request("POST /api/columns", 0, "", body),
              ColumnsPOST(db, body, fault))

SeqDeleteColumn ==
    \E fieldId \in FieldIds \cup {Undefined}, fault \in Faults :
        Serve(Request("DELETE /api/columns", 0, fieldId, NoBody),
              ColumnsDELETE(db, fieldId, fault))

NextSeq ==
    \/ SeqGetOffers
    \/ SeqPostOffer
    \/ SeqPutOffer
    \/ SeqDeleteOffer
    \/ SeqGetColumns
    \/ SeqPostColumn
    \/ SeqDeleteColumn

SpecSeq == Init /\ [][NextSeq]_vars

(***************************************************************************)
(* The page (VacationOffersComparison).  columns and offers are its local  *)
(* lists (React state); a handler calls fetch, which either is rejected    *)
(* (no response: the catch block runs) or brings the server's response.    *)
(* Other clients add and remove columns and remove offers in between.      *)
(***************************************************************************)
\* the array the server sends for orderBy: {order: 'asc'}
RECURSIVE ByOrder(_)
ByOrder(S) ==
    IF S = {} THEN <<>>
    ELSE LET c == CHOOSE x \in S : \A y \in S : x.order <= y.order
         IN <<c>> \o ByOrder(S \ {c})

\* a read by the page: the store stays as it is, and the read is not
\* counted against MaxRequests
Read(r, out, rejected) ==
    /\ inflight = EmptyBag
    /\ last' = IF rejected THEN last
               ELSE [Completed(r, out, 0) EXCEPT !.resp = out.resp]
    /\ UNCHANGED <<db, inflight, nreq, display>>

FetchColumns ==
    \E fail \in BOOLEAN, rejected \in BOOLEAN :
        LET out == ColumnsGET(db, fail)
        IN /\ Read(Request("GET /api/columns", 0, "", NoBody), out, rejected)
           \* Array.isArray(data) ? data : []   (an error response is {error})
           /\ columns' = IF rejected \/ out.resp.error # "" THEN <<>>
                         ELSE ByOrder(out.resp.payload)
           /\ event' = [handler |-> "fetchColumns", body |-> NoBody, rejected |-> rejected]
           /\ UNCHANGED offers

FetchOffers ==
    \E fail \in BOOLEAN, rejected \in BOOLEAN :
        LET out == OffersGET(db, fail)
        IN /\ Read(Request("GET /api/offers", 0, "", NoBody), out, rejected)
           /\ offers' = IF rejected \/ out.resp.error # "" THEN <<>>
                        ELSE out.resp.payload
           /\ event' = [handler |-> "fetchOffers", body |-> NoBody, rejected |-> rejected]
           /\ UNCHANGED columns

\* columns.forEach((c) => { if (c && c.fieldId) values[c.fieldId] = "" })
AddOfferValues(cols) ==
    [f \in {cols[i].fieldId : i \in DOMAIN cols} \ {""} |-> JStr("")]

AddOffer ==
    IF columns = <<>>
    THEN /\ event' = [handler |-> "addOffer", body |-> NoBody, rejected |-> FALSE]
         /\ UNCHANGED <<server, display, columns, offers>>
    ELSE \E fail \in BOOLEAN, rejected \in BOOLEAN :
        LET body == OfferBody("object", AddOfferValues(columns), <<>>)
            out == OffersPOST(db, body, fail)
        IN /\ IF rejected THEN UNCHANGED <<server, display>>
              ELSE Handle(Request("POST /api/offers", 0, "", body), out)
           \* if (newOffer && newOffer.id) setOffers(prev => [newOffer, ...prev])
           /\ offers' = IF ~rejected /\ out.resp.error = ""
                        THEN <<out.resp.payload>> \o offers
                        ELSE offers
           /\ event' = [handler |-> "addOffer", body |-> body, rejected |-> rejected]
           /\ UNCHANGED columns

\* POST /api/columns as addColumn sends it: the fieldId is slugify(label),
\* which is "" for a label without a letter or digit of a-z, 0-9
PostSlugColumn ==
    \E fieldId \in FieldIds \cup {""}, label \in Labels, fault \in Faults :
        LET body == ColumnBody("object", fieldId, label)
        IN Serve(Request("POST /api/columns", 0, "", body),
                 ColumnsPOST(db, body, fault))

NextClient ==
    \/ PostSlugColumn
    \/ SeqDeleteColumn
    \/ SeqDeleteOffer
    \/ FetchColumns
    \/ FetchOffers
    \/ AddOffer

SpecClient == Init /\ [][NextClient]_vars

(***************************************************************************)
(* PriceDisplay.  A string is a sequence of characters.  The characters of *)
(* PriceChars spell numbers, blanks, words, the JSON texts null and {} and *)
(* texts that are no JSON; they cannot spell an object with a total, the   *)
(* one case in which the try block of parsePrice returns.                  *)
(***************************************************************************)
PriceChars == {"1", ".", "-", " ", "n", "u", "l", "{", "}"}
PriceStrings == UNION {[1..n -> PriceChars] : n \in 0..MaxPriceLen}

\* the label prop: "Cena", "osoba", "all-in"
PriceLabels == {<<"C", "e", "n", "a">>, <<"o", "s", "o", "b", "a">>,
                <<"a", "l", "l", "-", "i", "n">>}
PersonCounts == {0, 2}

IsDigit(c) == c \in {"0", "1", "2", "3", "4", "5", "6", "7", "8", "9"}
DigitValue(c) == (CHOOSE i \in 1..10 : Digit[i] = c) - 1

UpperCase == <<"A", "B", "C", "D", "E", "F", "G", "H", "I", "J", "K", "L", "M",
               "N", "O", "P", "Q", "R", "S", "T", "U", "V", "W", "X", "Y", "Z">>
LowerCase == <<"a", "b", "c", "d", "e", "f", "g", "h", "i", "j", "k", "l", "m",
               "n", "o", "p", "q", "r", "s", "t", "u", "v", "w", "x", "y", "z">>

\* String.prototype.toLowerCase
ToLowerCase(s) ==
    [i \in DOMAIN s |->
        IF \E k \in DOMAIN UpperCase : UpperCase[k] = s[i]
        THEN LowerCase[CHOOSE k \in DOMAIN UpperCase : UpperCase[k] = s[i]]
        ELSE s[i]]

\* String.prototype.includes
Includes(s, sub) ==
    \E i \in 0..(Len(s) - Len(sub)) : \A j \in 1..Len(sub) : s[i + j] = sub[j]

\* String.prototype.trim
Trim(s) ==
    LET inner == {i \in DOMAIN s : s[i] # " "}
    IN IF inner = {} THEN <<>> ELSE SubSeq(s, Min(inner), Max(inner))

\* the longest run of digits at the head of s
RECURSIVE DigitRun(_)
DigitRun(s) ==
    IF s # <<>> /\ IsDigit(Head(s)) THEN <<Head(s)>> \o DigitRun(Tail(s)) ELSE <<>>

RECURSIVE DigitsValue(_)
DigitsValue(ds) ==
    IF ds = <<>> THEN 0
    ELSE 10 * DigitsValue(SubSeq(ds, 1, Len(ds) - 1)) + DigitValue(ds[Len(ds)])

RECURSIVE Pow10(_)
Pow10(n) == IF n = 0 THEN 1 ELSE 10 * Pow10(n - 1)

Drop(s, n) == SubSeq(s, n + 1, Len(s))

\* A number is mant / 10^scale, or NaN.
NaN == [nan |-> TRUE, mant |-> 0, scale |-> 0]
Number(mant, scale) == [nan |-> FALSE, mant |-> mant, scale |-> scale]

\* parseFloat: the longest prefix [-] digits [. digits] or [-] . digits
ParseFloat(s) ==
    LET neg == s # <<>> /\ Head(s) = "-"
        body == IF neg THEN Tail(s) ELSE s
        int == DigitRun(body)
        rest == Drop(body, Len(int))
        frac == IF rest # <<>> /\ Head(rest) = "." THEN DigitRun(Tail(rest)) ELSE <<>>
        mant == DigitsValue(int) * Pow10(Len(frac)) + DigitsValue(frac)
    IN IF int = <<>> /\ frac = <<>> THEN NaN
       ELSE Number(IF neg THEN 0 - mant ELSE mant, Len(frac))

\* priceString.replace(/[^\d.-]/g, "")
KeepNumeric(s) == SelectSeq(s, LAMBDA c : IsDigit(c) \/ c \in {".", "-"})

\* a JSON number: -? (0 | [1-9][0-9]*) (. [0-9]+)?
IsJsonNumber(t) ==
    LET body == IF t # <<>> /\ Head(t) = "-" THEN Tail(t) ELSE t
        int == DigitRun(body)
        rest == Drop(body, Len(int))
    IN /\ int # <<>>
       /\ (Len(int) > 1 => Head(int) # "0")
       /\ \/ rest = <<>>
          \/ /\ Head(rest) = "."
             /\ Len(rest) > 1
             /\ DigitRun(Tail(rest)) = Tail(rest)

\* the number without trailing zeros in its fraction
RECURSIVE Norm(_)
Norm(n) ==
    IF ~n.nan /\ n.scale > 0 /\ n.mant % 10 = 0
    THEN Norm(Number(n.mant \div 10, n.scale - 1))
    ELSE n

\* The strings of a price: the names of the members, the currencies and
\* the types, each with its characters.
Spelling ==
    ("total" :> <<"t", "o", "t", "a", "l">>) @@
    ("breakdown" :> <<"b", "r", "e", "a", "k", "d", "o", "w", "n">>) @@
    ("currency" :> <<"c", "u", "r", "r", "e", "n", "c", "y">>) @@
    ("type" :> <<"t", "y", "p", "e">>) @@
    ("isAllInclusive" :> <<"i", "s", "A", "l", "l", "I", "n", "c", "l", "u", "s", "i", "v", "e">>) @@
    ("flights" :> <<"f", "l", "i", "g", "h", "t", "s">>) @@
    ("accommodation" :> <<"a", "c", "c", "o", "m", "m", "o", "d", "a", "t", "i", "o", "n">>) @@
    ("food" :> <<"f", "o", "o", "d">>) @@
    ("transport" :> <<"t", "r", "a", "n", "s", "p", "o", "r", "t">>) @@
    ("activities" :> <<"a", "c", "t", "i", "v", "i", "t", "i", "e", "s">>) @@
    ("climate" :> <<"c", "l", "i", "m", "a", "t", "e">>) @@
    ("other" :> <<"o", "t", "h", "e", "r">>) @@
    ("PLN" :> <<"P", "L", "N">>) @@
    ("EUR" :> <<"E", "U", "R">>) @@
    ("USD" :> <<"U", "S", "D">>) @@
    ("GBP" :> <<"G", "B", "P">>) @@
    ("per-person" :> <<"p", "e", "r", "-", "p", "e", "r", "s", "o", "n">>)

\* A value that JSON.parse returns is a number (Number), Null, a string
\* [str], a boolean [bool] or an object [members]; a string that Spelling
\* does not have is "?".  The text has no blanks (JSON.stringify writes none).
JsonValue(s) ==
    LET RECURSIVE Value(_), Members(_, _)
        Fail == [ok |-> FALSE, value |-> Null, next |-> 0]
        Done(value, next) == [ok |-> TRUE, value |-> value, next |-> next]
        Literal(i, w) == i + Len(w) - 1 <= Len(s) /\ SubSeq(s, i, i + Len(w) - 1) = w
        \* the closing quote of the string whose first character is at i
        Quote(i) ==
            IF \E j \in i..Len(s) : s[j] = "\""
            THEN Min({j \in i..Len(s) : s[j] = "\""}) ELSE 0
        Atom(cs) ==
            IF \E a \in DOMAIN Spelling : Spelling[a] = cs
            THEN CHOOSE a \in DOMAIN Spelling : Spelling[a] = cs
            ELSE IF cs = <<>> THEN "" ELSE "?"
        \* the end of the run of digits, points and signs from i
        RunEnd(i) ==
            Min({j \in i..(Len(s) + 1) :
                    j = Len(s) + 1 \/ ~(IsDigit(s[j]) \/ s[j] \in {".", "-"})}) - 1
        \* the value whose text starts at i
        Value(i) ==
            IF i > Len(s) THEN Fail
            ELSE IF s[i] = "{" THEN Members(i + 1, <<>>)
            ELSE IF s[i] = "\""
            THEN LET Text(q) ==
                         IF q = 0 THEN Fail
                         ELSE Done([str |-> Atom(SubSeq(s, i + 1, q - 1))], q + 1)
                 IN Text(Quote(i + 1))
            ELSE IF Literal(i, <<"t", "r", "u", "e">>) THEN Done([bool |-> TRUE], i + 4)
            ELSE IF Literal(i, <<"f", "a", "l", "s", "e">>) THEN Done([bool |-> FALSE], i + 5)
            ELSE IF Literal(i, <<"n", "u", "l", "l">>) THEN Done(Null, i + 4)
            ELSE IF IsJsonNumber(SubSeq(s, i, RunEnd(i)))
            THEN Done(Norm(ParseFloat(SubSeq(s, i, RunEnd(i)))), RunEnd(i) + 1)
            ELSE Fail
        \* the members of an object from i on, after the members acc
        Members(i, acc) ==
            IF i > Len(s) THEN Fail
            ELSE IF s[i] = "}" /\ DOMAIN acc = {} THEN Done([members |-> acc], i + 1)
            ELSE IF s[i] # "\"" THEN Fail
            ELSE LET \* the member whose key ends before the quote at q and
                     \* whose value is v
                     Member(q, v) ==
                         LET all == (Atom(SubSeq(s, i + 1, q - 1)) :> v.value) @@ acc
                         IN IF ~v.ok \/ v.next > Len(s) THEN Fail
                            ELSE IF s[v.next] = "}" THEN Done([members |-> all], v.next + 1)
                            ELSE IF s[v.next] = "," THEN Members(v.next + 1, all)
                            ELSE Fail
                     Keyed(q) ==
                         IF q = 0 \/ q + 1 > Len(s) \/ s[q + 1] # ":" THEN Fail
                         ELSE Member(q, Value(q + 2))
                 IN Keyed(Quote(i + 1))
        Whole(top) ==
            IF top.ok /\ top.next = Len(s) + 1
            THEN [ok |-> TRUE, value |-> top.value]
            ELSE [ok |-> FALSE, value |-> Null]
    IN Whole(Value(1))

\* JSON.parse: the type of the value, or "SyntaxError"
JsonParse(s) ==
    LET t == Trim(s)
    IN IF IsJsonNumber(t) THEN "number"
       ELSE IF t = <<"n", "u", "l", "l">> THEN "null"
       ELSE IF /\ Len(t) >= 2
               /\ Head(t) = "{"
               /\ t[Len(t)] = "}"
               /\ Trim(SubSeq(t, 2, Len(t) - 1)) = <<>>
       THEN "object"
       ELSE IF t # <<>> /\ Head(t) = "{" /\ JsonValue(t).ok
       THEN "object"
       ELSE "SyntaxError"

\* The try block of parsePrice: "throws" (JSON.parse throws a SyntaxError;
\* parsed.total of null throws a TypeError), "falls" through the if
\* (a number is no object; {} has no total) or "returns" (an object with
\* a total).
TryParsed(s) ==
    LET Try(parsed, value) ==
            CASE parsed = "SyntaxError" -> "throws"
              [] parsed = "null" -> "throws"
              [] parsed = "number" -> "falls"
              [] parsed = "object" ->
                     IF value.ok /\ "total" \in DOMAIN value.value.members
                     THEN "returns" ELSE "falls"
    IN Try(JsonParse(s), JsonValue(Trim(s)))

\* the keys of PriceBreakdown
BreakdownKeys ==
    <<"flights", "accommodation", "food", "transport", "activities", "climate", "other">>

\* The object that the try block of parsePrice returns; parsed: the members
\* of the parsed object.
ParsedPrice(parsed) ==
    LET Falsy(v) ==
            \/ v = Null \/ v = [str |-> ""] \/ v = [bool |-> FALSE]
            \/ "mant" \in DOMAIN v /\ (v.nan \/ v.mant = 0)
        Plain(v) ==
            IF "str" \in DOMAIN v THEN v.str
            ELSE IF "bool" \in DOMAIN v THEN v.bool
            ELSE v
        \* parsed[k] || default
        Or(k, default) ==
            IF k \notin DOMAIN parsed \/ Falsy(parsed[k]) THEN default
            ELSE Plain(parsed[k])
        breakdown ==
            IF "breakdown" \in DOMAIN parsed /\ "members" \in DOMAIN parsed.breakdown
            THEN parsed.breakdown.members ELSE <<>>
    IN [total |-> Or("total", Number(0, 0)),
        \* parsed.breakdown?.[k] ?? null
        breakdown |-> [k \in {BreakdownKeys[i] : i \in DOMAIN BreakdownKeys} |->
                         IF k \in DOMAIN breakdown /\ breakdown[k] # Null
                         THEN Plain(breakdown[k]) ELSE Null],
        currency |-> Or("currency", "PLN"),
        type |-> Or("type", "total"),
        isAllInclusive |-> Or("isAllInclusive", FALSE),
        threw |-> FALSE]

CurrencyCodes ==
    {<<"p", "l", "n">>, <<"e", "u", "r">>, <<"u", "s", "d">>, <<"g", "b", "p">>}
CurrencyName(code) ==
    CASE code = <<"p", "l", "n">> -> "PLN"
      [] code = <<"e", "u", "r">> -> "EUR"
      [] code = <<"u", "s", "d">> -> "USD"
      [] code = <<"g", "b", "p">> -> "GBP"

\* priceString.match(/(PLN|EUR|USD|GBP)/i): the leftmost match, upper-cased,
\* or "PLN" when there is none
Currency(s) ==
    LET l == ToLowerCase(s)
        at == {i \in 1..(Len(l) - 2) : SubSeq(l, i, i + 2) \in CurrencyCodes}
    IN IF at = {} THEN "PLN"
       ELSE CurrencyName(SubSeq(l, Min(at), Min(at) + 2))

\* parsePrice after the try block: the regular expressions
ParsePlain(s, label) ==
    LET numericValue == ParseFloat(KeepNumeric(s))
        l == ToLowerCase(label)
    IN [total |-> IF numericValue.nan THEN Number(0, 0) ELSE numericValue,
        currency |-> Currency(s),
        type |-> IF Includes(l, <<"o", "s", "o", "b">>) THEN "per-person" ELSE "total",
        isAllInclusive |-> Includes(l, <<"a", "l", "l", "-", "i", "n">>),
        threw |-> FALSE]

\* parsePrice: threw says whether an exception leaves it.  The catch block
\* logs the exception of the try block and goes on.
ParsePrice(s, label) ==
    IF Trim(s) = <<>>
    THEN [total |-> Number(0, 0), currency |-> "PLN", type |-> "total",
          threw |-> FALSE]
    ELSE LET Caught(tried) ==
                 IF tried = "returns"
                 THEN ParsedPrice(JsonValue(Trim(s)).value.members)
                 ELSE ParsePlain(s, label)
         IN Caught(TryParsed(s))

\* grandTotalCost
GrandTotalCost(priceData, personCount) ==
    LET validPersonCount == IF personCount > 0 THEN personCount ELSE 1
    IN IF priceData.type = "per-person"
       THEN Number(priceData.total.mant * validPersonCount, priceData.total.scale)
       ELSE priceData.total

\* What PriceDisplay renders: the editor, the placeholder "Brak informacji
\* o cenie", or the price card; text is the raw string where one is shown.
PriceView(kind, threw, priceData, amount) ==
    [kind |-> kind, threw |-> threw, text |-> <<>>, amount |-> amount,
     currency |-> priceData.currency, type |-> priceData.type,
     isAllInclusive |-> "isAllInclusive" \in DOMAIN priceData /\ priceData.isAllInclusive]

PriceDisplay(value, isEditing, personCount, label) ==
    LET priceData == ParsePrice(value, label)
        grandTotalCost == GrandTotalCost(priceData, personCount)
    IN IF priceData.threw THEN PriceView("error", TRUE, priceData, Number(0, 0))
       ELSE IF isEditing THEN PriceView("editor", FALSE, priceData, grandTotalCost)
       ELSE IF value = <<>> \/ grandTotalCost.mant = 0
       THEN PriceView("placeholder", FALSE, priceData, Number(0, 0))
       ELSE PriceView("price", FALSE, priceData, grandTotalCost)

NoView == [kind |-> "none"]

InitPrice ==
    /\ db = InitDb
    /\ inflight = EmptyBag
    /\ last = NoLast
    /\ nreq = 0
    /\ priceString \in PriceStrings
    /\ priceView = NoView
    /\ flightString = <<>>
    /\ flightView = NoView
    /\ ratingString = <<>>
    /\ ratingView = NoView
    /\ columns = <<>>
    /\ offers = <<>>
    /\ event = NoEvent
    /\ cells = <<>>
    /\ priceState = Null
    /\ priceEdit = [kind |-> "none", pending |-> FALSE, n |-> 0]

\* the cell is rendered
RenderPrice ==
    /\ \E isEditing \in BOOLEAN, personCount \in PersonCounts, label \in PriceLabels :
          priceView' = PriceDisplay(priceString, isEditing, personCount, label)
    /\ UNCHANGED <<server, page, priceState, priceEdit, cells, ratingString, ratingView, priceString, flightString, flightView>>

NextPrice == RenderPrice

SpecPrice == InitPrice /\ [][NextPrice]_vars

(***************************************************************************)
(* FlightDisplay.  The flight strings are the concatenations of at most    *)
(* MaxFlightTokens tokens.  A character outside ASCII is written by its    *)
(* code point: "U+2192" is the arrow.                                      *)
(***************************************************************************)
RECURSIVE Flatten(_)
Flatten(ss) == IF ss = <<>> THEN <<>> ELSE Head(ss) \o Flatten(Tail(ss))

FlightStrings ==
    LET FlightTokens ==
            {<<"W", "A", "W">>, <<"r", "h">>, <<"o">>, <<" ">>, <<"-">>, <<"U+2192">>,
             <<"1", "5", ".", "0", "9">>, <<"0", "5", ":", "5", "5">>, <<"|">>,
             <<"X", "1">>}
    IN {Flatten(ts) : ts \in UNION {[1..n -> FlightTokens] : n \in 0..MaxFlightTokens}}

\* the position after the whitespace of s that starts at position i
SkipSpaces(s, i) ==
    CHOOSE j \in i..(Len(s) + 1) :
        /\ \A k \in i..(j - 1) : s[k] = " "
        /\ j = Len(s) + 1 \/ s[j] # " "

\* additionalInfo.match(/^(.*?)(?:\s+([A-Z0-9]+))?$/): the shortest prefix
\* that leaves blanks and a word of capitals and digits, or all of it
AirlineMatch(info) ==
    LET IsCode(c) == IsDigit(c) \/ \E k \in DOMAIN UpperCase : UpperCase[k] = c
        Cuts == {k \in 0..(Len(info) - 2) :
                    LET w == SkipSpaces(info, k + 1)
                    IN /\ w > k + 1
                       /\ w <= Len(info)
                       /\ \A i \in w..Len(info) : IsCode(info[i])}
        k == IF Cuts = {} THEN Len(info) ELSE Min(Cuts)
    IN [airline |-> Trim(SubSeq(info, 1, k))]
       @@ (IF Cuts = {} THEN <<>>
           ELSE [flightNumber |-> SubSeq(info, SkipSpaces(info, k + 1), Len(info))])

\* flightString.trim().match(regex) of parseFlight, the regular expression
\* /^([A-Z]{3})\s*(?:(\d{2}\.\d{2})\s*(\d{2}:\d{2}))?\s*[U+2192-]\s*([A-Z]{3})
\*   \s*(\d{2}:\d{2})?\s*(?:\|\s*(.+))?/i
\* and the object parseFlight builds from the match; the fallback otherwise.
\* An optional member that is undefined is left out of the record.
ParseFlightTrimmed(s) ==
    LET IsLetter(c) == \E k \in DOMAIN UpperCase : UpperCase[k] = c \/ LowerCase[k] = c
        Letters3(i) == i + 2 <= Len(s) /\ \A k \in i..(i + 2) : IsLetter(s[k])
        \* \d{2} sep \d{2}
        Pair(i, sep) ==
            /\ i + 4 <= Len(s)
            /\ IsDigit(s[i]) /\ IsDigit(s[i + 1]) /\ s[i + 2] = sep
            /\ IsDigit(s[i + 3]) /\ IsDigit(s[i + 4])
        p2 == SkipSpaces(s, 4)
        t2 == SkipSpaces(s, p2 + 5)
        dated == Pair(p2, ".") /\ Pair(t2, ":")
        p4 == SkipSpaces(s, IF dated THEN t2 + 5 ELSE p2)
        p5 == SkipSpaces(s, p4 + 1)
        p6 == SkipSpaces(s, p5 + 3)
        timed == Pair(p6, ":")
        p8 == SkipSpaces(s, IF timed THEN p6 + 5 ELSE p6)
        p9 == SkipSpaces(s, p8 + 1)
        hasInfo == p8 <= Len(s) /\ s[p8] = "|" /\ p9 <= Len(s)
        matches ==
            /\ Letters3(1)
            /\ p4 <= Len(s) /\ s[p4] \in {"U+2192", "-"}
            /\ Letters3(p5)
    IN IF ~matches THEN [from |-> <<>>, to |-> <<>>, rawString |-> s]
       ELSE [from |-> SubSeq(s, 1, 3), to |-> SubSeq(s, p5, p5 + 2)]
            @@ (IF dated THEN [date |-> SubSeq(s, p2, p2 + 4),
                               departureTime |-> SubSeq(s, t2, t2 + 4)]
                ELSE <<>>)
            @@ (IF timed THEN [arrivalTime |-> SubSeq(s, p6, p6 + 4)] ELSE <<>>)
            @@ (IF hasInfo THEN AirlineMatch(SubSeq(s, p9, Len(s))) ELSE <<>>)

\* parseFlight: null for a blank string
ParseFlightMutant(s) == IF Trim(s) = <<>> THEN Null ELSE ParseFlightTrimmed(s)
ParseFlight(s) == IF Trim(s) = <<>> THEN Null ELSE ParseFlightTrimmed(Trim(s))

\* a member that is defined and not the empty string
Truthy(o, member) == member \in DOMAIN o /\ o[member] # <<>>

\* What FlightDisplay renders: the editor, the placeholder "Brak informacji
\* o locie", the raw string, or the flight's details.
FlightDisplay(value, isEditing) ==
    LET flight == ParseFlight(value)
    IN IF isEditing THEN [kind |-> "editor", flight |-> flight]
       ELSE IF \/ flight = Null
               \/ ~Truthy(flight, "from") /\ ~Truthy(flight, "to")
                    /\ ~Truthy(flight, "rawString")
       THEN [kind |-> "placeholder", flight |-> flight]
       ELSE IF ~Truthy(flight, "from") \/ ~Truthy(flight, "to")
       THEN [kind |-> "raw", flight |-> flight,
             text |-> IF Truthy(flight, "rawString") THEN flight.rawString
                      ELSE <<"Nieznany format lotu">>]
       ELSE [kind |-> "details", flight |-> flight]

InitFlight ==
    /\ db = InitDb
    /\ inflight = EmptyBag
    /\ last = NoLast
    /\ nreq = 0
    /\ priceString = <<>>
    /\ priceView = NoView
    /\ flightString \in FlightStrings
    /\ flightView = NoView
    /\ ratingString = <<>>
    /\ ratingView = NoView
    /\ columns = <<>>
    /\ offers = <<>>
    /\ event = NoEvent
    /\ cells = <<>>
    /\ priceState = Null
    /\ priceEdit = [kind |-> "none", pending |-> FALSE, n |-> 0]

\* the cell is rendered
RenderFlight ==
    /\ \E isEditing \in BOOLEAN : flightView' = FlightDisplay(flightString, isEditing)
    /\ UNCHANGED <<server, page, priceState, priceEdit, cells, ratingString, ratingView, priceString, priceView, flightString>>

SpecFlight == InitFlight /\ [][RenderFlight]_vars

(***************************************************************************)
(* RatingDisplay.  The rating strings are the concatenations of at most    *)
(* MaxRatingTokens tokens; "U+2605" is the star, "U+2013" the en dash,     *)
(* "U+2248" the almost-equal sign.                                         *)
(***************************************************************************)
RatingStrings ==
    LET RatingTokens ==
            {<<"U+2605">>, <<" ">>, <<"4">>, <<"0">>, <<",">>, <<".">>, <<"/">>,
             <<"U+2013">>, <<"x">>, <<"(", "U+2248", "6", "9", " ", "x", ")">>}
    IN {Flatten(ts) : ts \in UNION {[1..n -> RatingTokens] : n \in 0..MaxRatingTokens}}

\* parseRating for a trimmed, non-blank string: the two regular expressions
\*   /U+2605\s*([0-9,.]+)(?:\/([0-9,.]+))?\s*(?:[U+2013-]\s*([^(]+))?\s*
\*      (?:\(U+2248?\s*([0-9,.]+)\s*([^)]+)\))?/i
\*   /([0-9,.]+)\/([0-9,.]+)(?:\s*\(([0-9,.]+)\s*([^)]+)\))?/i
\* each at its leftmost match, and the fallback.
ParseRatingTrimmed(s) ==
    LET InClass(i) == i \in DOMAIN s /\ (IsDigit(s[i]) \/ s[i] \in {",", "."})
        \* the position after the run of [0-9,.] that starts at i
        RunEnd(i) == CHOOSE j \in i..(Len(s) + 1) :
                        (\A k \in i..(j - 1) : InClass(k)) /\ ~InClass(j)
        \* str.replace(',', '.'): the first comma only
        ReplaceComma(str) ==
            LET at == {i \in DOMAIN str : str[i] = ","}
            IN IF at = {} THEN str ELSE [str EXCEPT ![Min(at)] = "."]
        Float(i, j) == ParseFloat(ReplaceComma(SubSeq(s, i, j - 1)))
        \* after the parenthesis at i: U+2248?\s* of the star expression
        ReviewStart(i, approx) ==
            IF ~approx THEN i + 1
            ELSE SkipSpaces(s, IF i + 1 <= Len(s) /\ s[i + 1] = "U+2248"
                               THEN i + 2 ELSE i + 1)
        \* (?:\(U+2248?\s*([0-9,.]+)\s*([^)]+)\))? tried at the parenthesis at
        \* position i: the end of the run that is the review count, or i
        \* when the group does not match
        ReviewEnd(i, approx) ==
            LET close == {k \in i..Len(s) : s[k] = ")"}
                a == ReviewStart(i, approx)
                b == RunEnd(a)
                c == SkipSpaces(s, b)
            IN IF ~(i <= Len(s) /\ s[i] = "(") \/ close = {} \/ b = a \/ b > Min(close)
               THEN i
               ELSE IF c < Min(close) \/ c > b THEN b
               ELSE IF b - a >= 2 THEN b - 1
               ELSE i
        Review(i, approx) ==
            IF ReviewEnd(i, approx) = i THEN <<>>
            ELSE [reviewCount |->
                    ParseFloat(SelectSeq(
                        SubSeq(s, ReviewStart(i, approx), ReviewEnd(i, approx) - 1),
                        IsDigit))]
        \* the star expression
        stars == {i \in DOMAIN s : s[i] = "U+2605" /\ InClass(SkipSpaces(s, i + 1))}
        s1 == SkipSpaces(s, Min(stars) + 1)
        s2 == RunEnd(s1)
        hasMax == s2 <= Len(s) /\ s[s2] = "/" /\ InClass(s2 + 1)
        s3 == IF hasMax THEN RunEnd(s2 + 1) ELSE s2
        s4 == SkipSpaces(s, s3)
        dashed == s4 <= Len(s) /\ s[s4] \in {"U+2013", "-"}
        \* \s*([^(]+): the blanks, then all up to the next parenthesis; the
        \* last blank when nothing else is left
        d1 == SkipSpaces(s, s4 + 1)
        d2 == IF d1 <= Len(s) /\ s[d1] # "(" THEN d1
              ELSE IF d1 > s4 + 1 THEN d1 - 1 ELSE 0
        d3 == IF {k \in d2..Len(s) : s[k] = "("} = {} THEN Len(s) + 1
              ELSE Min({k \in d2..Len(s) : s[k] = "("})
        described == dashed /\ d2 # 0
        s5 == SkipSpaces(s, IF described THEN d3 ELSE s3)
        \* the score expression
        scores == {i \in DOMAIN s :
                     /\ InClass(i) /\ ~InClass(i - 1)
                     /\ RunEnd(i) <= Len(s) /\ s[RunEnd(i)] = "/"
                     /\ InClass(RunEnd(i) + 1)}
        m1 == Min(scores)
        m2 == RunEnd(m1)
        m3 == RunEnd(m2 + 1)
    IN IF stars # {}
       THEN [stars |-> Float(s1, s2), score |-> Float(s1, s2),
             maxStars |-> IF hasMax THEN Float(s2 + 1, s3) ELSE Number(5, 0),
             rawString |-> s]
            @@ (IF described THEN [description |-> Trim(SubSeq(s, d2, d3 - 1))]
                ELSE <<>>)
            @@ Review(s5, TRUE)
       ELSE IF scores # {}
       THEN [stars |-> Float(m1, m2), score |-> Float(m1, m2),
             maxStars |-> Float(m2 + 1, m3), rawString |-> s]
            @@ Review(SkipSpaces(s, m3), FALSE)
       ELSE [rawString |-> s]

\* parseRating: null for a blank string
ParseRating(s) == IF Trim(s) = <<>> THEN Null ELSE ParseRatingTrimmed(Trim(s))

\* a number that is neither NaN nor 0
TruthyNumber(o, member) ==
    member \in DOMAIN o /\ ~o[member].nan /\ o[member].mant # 0

\* What RatingDisplay renders from its state rating: the editor, the
\* placeholder "Brak informacji o ocenie", the raw string, or the star bar.
\* parsed: the effect has stored parseRating(value) in rating.
RatingDisplayMutant(rating, isEditing, parsed) ==
    LET kind == IF isEditing THEN "editor"
                ELSE IF rating = Null THEN "placeholder"
                ELSE IF "score" \notin DOMAIN rating THEN "raw"
                ELSE "stars"
    IN [kind |-> kind, rating |-> rating, parsed |-> parsed]
       @@ (IF kind = "raw" THEN [text |-> rating.rawString] ELSE <<>>)
RatingDisplay(rating, isEditing, parsed) ==
    LET scored == TruthyNumber(rating, "stars") \/ TruthyNumber(rating, "score")
        kind == IF isEditing THEN "editor"
                ELSE IF rating = Null \/ (~scored /\ ~Truthy(rating, "rawString"))
                THEN "placeholder"
                ELSE IF ~scored THEN "raw"
                ELSE "stars"
    IN [kind |-> kind, rating |-> rating, parsed |-> parsed]
       @@ (IF kind = "raw" THEN [text |-> rating.rawString] ELSE <<>>)

InitRating ==
    /\ db = InitDb
    /\ inflight = EmptyBag
    /\ last = NoLast
    /\ nreq = 0
    /\ priceString = <<>>
    /\ priceView = NoView
    /\ flightString = <<>>
    /\ flightView = NoView
    /\ ratingString \in RatingStrings
    /\ ratingView = NoView
    /\ columns = <<>>
    /\ offers = <<>>
    /\ event = NoEvent
    /\ cells = <<>>
    /\ priceState = Null
    /\ priceEdit = [kind |-> "none", pending |-> FALSE, n |-> 0]

\* the first render: useState(null)
MountRating ==
    /\ ratingView = NoView
    /\ \E isEditing \in BOOLEAN : ratingView' = RatingDisplay(Null, isEditing, FALSE)
    /\ UNCHANGED <<server, page, priceState, priceEdit, cells, ratingString, priceString, priceView, flightString, flightView>>

\* useEffect: setRating(parseRating(value)), and the render that follows
RatingEffect ==
    /\ ratingView # NoView
    /\ \E isEditing \in BOOLEAN :
          ratingView' = RatingDisplay(ParseRating(ratingString), isEditing, TRUE)
    /\ UNCHANGED <<server, page, priceState, priceEdit, cells, ratingString, priceString, priceView, flightString, flightView>>

SpecRating == InitRating /\ [][MountRating \/ RatingEffect]_vars

(***************************************************************************)
(* The editor of PriceDisplay.  priceState is the component's state        *)
(* (priceData) and priceString the value prop: updatePrice hands the JSON  *)
(* text to onChange (updateCell stores it in the offer at once) and the    *)
(* effect parses the new value before the next edit.                      *)
(***************************************************************************)
\* JSON.stringify of a price; the members in the order of the object that
\* parsePrice returns (JSON.parse does not depend on the order)
JsonStringifyMutant(d) ==
    <<"{", "\"", "t", "o", "t", "a", "l", "\"", ":", "0", "}">>
JsonStringify(d) ==
    LET RECURSIVE Digits(_, _), Join(_)
        \* the last `width` digits of k, or all its digits when width = 0
        Digits(k, width) ==
            IF width = 0 /\ k < 10 THEN <<Digit[k + 1]>>
            ELSE IF width = 1 THEN <<Digit[(k % 10) + 1]>>
            ELSE Digits(k \div 10, IF width = 0 THEN 0 ELSE width - 1)
                 \o <<Digit[(k % 10) + 1]>>
        \* Number.prototype.toString of a decimal
        NumberChars(n) ==
            LET m == IF n.mant < 0 THEN 0 - n.mant ELSE n.mant
            IN (IF n.mant < 0 THEN <<"-">> ELSE <<>>)
               \o Digits(m \div Pow10(n.scale), 0)
               \o (IF n.scale = 0 THEN <<>>
                   ELSE <<".">> \o Digits(m % Pow10(n.scale), n.scale))
        \* a number, or null for null and NaN
        NumberText(v) ==
            IF v = Null THEN <<"n", "u", "l", "l">>
            ELSE IF v.nan THEN <<"n", "u", "l", "l">>
            ELSE NumberChars(Norm(v))
        Quoted(a) == <<"\"">> \o Spelling[a] \o <<"\"">>
        Member(a, text) == Quoted(a) \o <<":">> \o text
        Join(texts) ==
            IF texts = <<>> THEN <<>>
            ELSE IF Len(texts) = 1 THEN texts[1]
            ELSE texts[1] \o <<",">> \o Join(Tail(texts))
        Object(members) == <<"{">> \o Join(members) \o <<"}">>
        BreakdownText(b) ==
            LET keys == SelectSeq(BreakdownKeys, LAMBDA k : k \in DOMAIN b)
            IN Object([i \in DOMAIN keys |-> Member(keys[i], NumberText(b[keys[i]]))])
        Text(k) ==
            CASE k = "total" -> NumberText(d.total)
              [] k = "breakdown" -> BreakdownText(d.breakdown)
              [] k \in {"currency", "type"} -> Quoted(d[k])
              [] k = "isAllInclusive" ->
                    IF d.isAllInclusive THEN <<"t", "r", "u", "e">>
                    ELSE <<"f", "a", "l", "s", "e">>
        keys == SelectSeq(<<"total", "breakdown", "currency", "type", "isAllInclusive">>,
                          LAMBDA k : k \in DOMAIN d)
    IN Object([i \in DOMAIN keys |-> Member(keys[i], Text(keys[i]))])

\* updatePrice: the new state (and the object that is written)
UpdatePriceMutant(priceData, newData) == newData @@ priceData
UpdatePrice(priceData, newData) ==
    LET RECURSIVE Sum(_)
        updated == newData @@ priceData
        \* a + b
        Add(a, b) ==
            LET scale == IF a.scale > b.scale THEN a.scale ELSE b.scale
            IN Norm(Number(a.mant * Pow10(scale - a.scale)
                           + b.mant * Pow10(scale - b.scale), scale))
        \* Object.values(newData.breakdown).reduce(
        \*     (sum, val) => sum + (typeof val === 'number' ? val : 0), 0)
        Sum(keys) ==
            IF keys = <<>> THEN Number(0, 0)
            ELSE Add(IF newData.breakdown[Head(keys)] = Null THEN Number(0, 0)
                     ELSE newData.breakdown[Head(keys)],
                     Sum(Tail(keys)))
    IN IF "breakdown" \in DOMAIN newData
       THEN [updated EXCEPT
               !.total = Sum(SelectSeq(BreakdownKeys,
                                       LAMBDA k : k \in DOMAIN newData.breakdown)),
               !.type = "breakdown"]
       ELSE IF "total" \in DOMAIN newData /\ updated.type = "breakdown"
       THEN [updated EXCEPT
               !.type = IF priceData.type = "per-person" THEN "per-person" ELSE "total"]
       ELSE updated

\* What the editor's callbacks pass to updatePrice, by the name of the
\* control: the total input, the currency select, the two type buttons,
\* the all-inclusive button and the inputs of the breakdown (updateBreakdown).
Edits(priceData) ==
    LET inputs == {<<>>, <<"0">>, <<"5">>, <<"2", ".", "5">>}
        \* parseFloat(e.target.value) || fallback
        Or(v, fallback) ==
            IF ParseFloat(v).nan \/ ParseFloat(v).mant = 0 THEN fallback
            ELSE Norm(ParseFloat(v))
        isAllInclusive == "isAllInclusive" \in DOMAIN priceData /\ priceData.isAllInclusive
        currentBreakdown ==
            IF "breakdown" \in DOMAIN priceData THEN priceData.breakdown ELSE <<>>
    IN {[control |-> "total", newData |-> [total |-> Or(v, Number(0, 0))]] : v \in inputs}
       \cup {[control |-> "currency", newData |-> [currency |-> c]] : c \in {"PLN", "EUR"}}
       \cup {[control |-> "type", newData |-> [type |-> t]] : t \in {"total", "per-person"}}
       \cup {[control |-> "all-inclusive",
              newData |-> [isAllInclusive |-> ~isAllInclusive,
                           type |-> IF isAllInclusive THEN priceData.type
                                    ELSE "per-person"]]}
       \cup {[control |-> "breakdown",
              newData |-> [breakdown |-> (k :> Or(v, Null)) @@ currentBreakdown]] :
                k \in {"flights", "food"}, v \in inputs}

\* the cell's value is empty and the component is mounted in edit mode:
\* useState(() => parsePrice(value))
InitEdit ==
    /\ db = InitDb
    /\ inflight = EmptyBag
    /\ last = NoLast
    /\ nreq = 0
    /\ priceString = <<>>
    /\ priceView = NoView
    /\ flightString = <<>>
    /\ flightView = NoView
    /\ ratingString = <<>>
    /\ ratingView = NoView
    /\ columns = <<>>
    /\ offers = <<>>
    /\ event = NoEvent
    /\ cells = <<>>
    /\ priceState = ParsePrice(<<>>, <<"C", "e", "n", "a">>)
    /\ priceEdit = [kind |-> "none", pending |-> FALSE, n |-> 0]

\* an edit: updatePrice(newData)
EditPrice ==
    /\ ~priceEdit.pending
    /\ priceEdit.n < MaxEdits
    /\ \E e \in Edits(priceState) :
         LET updated == UpdatePrice(priceState, e.newData)
         IN /\ priceState' = updated
            /\ priceString' = JsonStringify(updated)
            /\ priceEdit' = [kind |-> e.control,
                             pending |-> JsonStringify(updated) # priceString,
                             n |-> priceEdit.n + 1]
    /\ UNCHANGED <<server, page, cells, priceView, flightString, flightView,
                   ratingString, ratingView>>

\* useEffect(() => setPriceData(parsePrice(value)), [value, parsePrice])
PriceEffect ==
    /\ priceEdit.pending
    /\ priceState' = ParsePrice(priceString, <<"C", "e", "n", "a">>)
    /\ priceEdit' = [priceEdit EXCEPT !.kind = "effect", !.pending = FALSE]
    /\ UNCHANGED <<server, page, cells, priceString, priceView, flightString, flightView,
                   ratingString, ratingView>>

SpecEdit == InitEdit /\ [][EditPrice \/ PriceEffect]_vars

(***************************************************************************)
(* The cells of an offer card.  The page chooses the component of a cell   *)
(* from the column's fieldId and label.  A fieldId or label is a sequence  *)
(* of characters, here the concatenation of a few words of Words.          *)
(***************************************************************************)

RECURSIVE Texts(_)
Texts(n) ==
    LET Words ==
            {<<"o">>,
             <<"O">>,
             <<"c", "e", "n", "a">>,
             <<"p", "r", "i", "c", "e">>,
             <<"r", "a", "t", "i", "n", "g">>,
             <<"r", "e", "v", "i", "e", "w">>,
             <<"s", "c", "o", "r", "e">>,
             <<"n", "o", "t", "e">>,
             <<"l", "o", "t">>,
             <<"x">>}
    IN IF n = 0 THEN {<<>>}
       ELSE Texts(n - 1) \cup {t \o w : t \in Texts(n - 1), w \in Words}

\* keywords.some(keyword => fieldId.toLowerCase().includes(keyword)
\*                          || label.toLowerCase().includes(keyword))
SomeKeyword(keywords, fieldId, label) ==
    \E keyword \in keywords :
        \/ Includes(ToLowerCase(fieldId), keyword)
        \/ Includes(ToLowerCase(label), keyword)

isPriceFieldMutant(fieldId, label) ==
    /\ fieldId # <<>> /\ label # <<>>
    /\ SomeKeyword({<<"c", "e", "n", "a">>, <<"p", "r", "i", "c", "e">>}, fieldId, label)
isPriceField(fieldId, label) ==
    LET priceKeywords ==
            {<<"c", "e", "n", "a">>,
             <<"p", "r", "i", "c", "e">>,
             <<"k", "o", "s", "z", "t">>,
             <<"c", "o", "s", "t">>,
             <<"k", "w", "o", "t", "a">>,
             <<"a", "m", "o", "u", "n", "t">>,
             <<"s", "u", "m", "a">>,
             <<"t", "o", "t", "a", "l">>,
             <<"w", "-", "s", "u", "m", "i", "e">>}
        negativeKeywords ==
            {<<"o", "c", "e", "n", "a">>,
             <<"r", "a", "t", "i", "n", "g">>,
             <<"r", "e", "v", "i", "e", "w">>,
             <<"s", "c", "o", "r", "e">>,
             <<"n", "o", "t", "e">>}
    IN IF fieldId = <<>> \/ label = <<>> THEN FALSE
       ELSE IF SomeKeyword(negativeKeywords, fieldId, label) THEN FALSE
       ELSE SomeKeyword(priceKeywords, fieldId, label)

isRatingField(fieldId, label) ==
    LET ratingKeywords ==
            {<<"o", "c", "e", "n", "a">>,
             <<"r", "a", "t", "i", "n", "g">>,
             <<"r", "e", "v", "i", "e", "w">>,
             <<"s", "c", "o", "r", "e">>,
             <<"g", "w", "i", "a", "z", "d", "k", "a">>,
             <<"s", "t", "a", "r">>,
             <<"o", "p", "i", "n", "i", "o", "n">>}
    IN /\ fieldId # <<>> /\ label # <<>>
       /\ SomeKeyword(ratingKeywords, fieldId, label)

isFlightField(fieldId, label) ==
    LET flightKeywords ==
            {<<"l", "o", "t">>,
             <<"f", "l", "i", "g", "h", "t">>,
             <<"s", "a", "m", "o", "l", "o", "t">>,
             <<"w", "y", "l", "o", "t">>,
             <<"p", "o", "w", "r", "o", "t">>,
             <<"d", "e", "p", "a", "r", "t", "u", "r", "e">>,
             <<"a", "r", "r", "i", "v", "a", "l">>,
             <<"r", "e", "t", "u", "r", "n">>}
    IN /\ fieldId # <<>> /\ label # <<>>
       /\ SomeKeyword(flightKeywords, fieldId, label)

\* columns.map((col) => ...): the component that renders the cell of col;
\* "none" when the column is skipped, "text" for the textarea or pre element
Cell(col, offer) ==
    IF col.id = 0 \/ col.fieldId = <<>> THEN [component |-> "none"]
    ELSE [component |->
            IF isPriceField(col.fieldId, col.label) THEN "PriceDisplay"
            ELSE IF isRatingField(col.fieldId, col.label) THEN "RatingDisplay"
            ELSE IF isFlightField(col.fieldId, col.label) THEN "FlightDisplay"
            ELSE "text"]

\* the page holds one offer and one column of any fieldId and label
InitCell ==
    /\ db = InitDb
    /\ inflight = EmptyBag
    /\ last = NoLast
    /\ nreq = 0
    /\ priceString = <<>>
    /\ priceView = [kind |-> "none"]
    /\ flightString = <<>>
    /\ flightView = [kind |-> "none"]
    /\ ratingString = <<>>
    /\ ratingView = [kind |-> "none"]
    /\ \E fieldId \in Texts(MaxFieldWords), label \in Texts(MaxLabelWords) :
          columns = <<[id |-> 1, fieldId |-> fieldId, label |-> label, order |-> 0]>>
    /\ offers = <<[id |-> 1, values |-> <<>>]>>
    /\ event = NoEvent
    /\ cells = <<>>
    /\ priceState = Null
    /\ priceEdit = [kind |-> "none", pending |-> FALSE, n |-> 0]

\* the page renders the cards: for every offer, the cells of the columns
RenderCells ==
    /\ cells = <<>>
    /\ cells' = [i \in DOMAIN offers |->
                    [j \in DOMAIN columns |-> Cell(columns[j], offers[i])]]
    /\ UNCHANGED <<server, page, priceState, priceEdit, priceString, priceView, flightString, flightView,
                   ratingString, ratingView>>

SpecCell == InitCell /\ [][RenderCells]_vars

(***************************************************************************)
(* The price card of an offer.  The page passes getPersonCount(offer) and  *)
(* getDurationDays(offer) to PriceDisplay, which divides the grand total   *)
(* by them.                                                                *)
(***************************************************************************)

\* parseInt: blanks, a sign, and the longest run of digits; NaN without one
ParseInt(s) ==
    LET t == Drop(s, SkipSpaces(s, 1) - 1)
        neg == t # <<>> /\ Head(t) = "-"
        body == IF t # <<>> /\ Head(t) \in {"-", "+"} THEN Tail(t) ELSE t
        int == DigitRun(body)
    IN IF int = <<>> THEN NaN
       ELSE Number(IF neg THEN 0 - DigitsValue(int) ELSE DigitsValue(int), 0)

\* getPersonCount without the test count < 1
getPersonCountMutant(offer) ==
    LET found == {j \in DOMAIN columns :
                     Includes(ToLowerCase(columns[j].fieldId \o columns[j].label), <<"o", "s", "o", "b">>)}
        count == IF found = {} THEN NaN
                 ELSE ParseInt(IF columns[Min(found)].fieldId \in DOMAIN offer.values
                               THEN offer.values[columns[Min(found)].fieldId]
                               ELSE <<"1">>)
    IN IF count.nan THEN 1 ELSE count.mant

\* getPersonCount: the count in the first column whose fieldId or label
\* names persons; 1 without one
getPersonCount(offer) ==
    IF columns = <<>> THEN 1
    ELSE LET Names(col) ==
                 LET fieldId == ToLowerCase(col.fieldId)
                     label == ToLowerCase(col.label)
                 IN /\ col.fieldId # <<>> /\ col.label # <<>>
                    /\ \/ Includes(fieldId, <<"o", "s", "o", "b">>)
                       \/ Includes(label, <<"o", "s", "o", "b">>)
                       \/ Includes(fieldId, <<"p", "e", "r", "s", "o", "n">>)
                       \/ Includes(label, <<"p", "e", "r", "s", "o", "n">>)
                       \/ Includes(fieldId, <<"p", "e", "o", "p", "l", "e">>)
             found == {j \in DOMAIN columns : Names(columns[j])}
         IN IF found = {} THEN 1
            ELSE LET personField == columns[Min(found)]
                     value == IF personField.fieldId \in DOMAIN offer.values
                              THEN offer.values[personField.fieldId]
                              ELSE <<>>
                     count == ParseInt(IF value = <<>> THEN <<"1">> ELSE value)
                 IN IF count.nan \/ count.mant < 1 THEN 1 ELSE count.mant

\* getDurationDays: the days in the first column whose fieldId or label
\* names a duration; 7 without one
getDurationDays(offer) ==
    IF columns = <<>> THEN 7
    ELSE LET Names(col) ==
                 LET fieldId == ToLowerCase(col.fieldId)
                     label == ToLowerCase(col.label)
                 IN /\ col.fieldId # <<>> /\ col.label # <<>>
                    /\ \/ Includes(fieldId, <<"d", "n", "i">>)
                       \/ Includes(label, <<"d", "n", "i">>)
                       \/ Includes(fieldId, <<"d", "a", "y", "s">>)
                       \/ Includes(label, <<"d", "a", "y", "s">>)
                       \/ Includes(fieldId, <<"d", "u", "r", "a", "t", "i", "o", "n">>)
                       \/ Includes(label, <<"n", "o", "c">>)
             found == {j \in DOMAIN columns : Names(columns[j])}
         IN IF found = {} THEN 7
            ELSE LET durationField == columns[Min(found)]
                     value == IF durationField.fieldId \in DOMAIN offer.values
                              THEN offer.values[durationField.fieldId]
                              ELSE <<>>
                     days == ParseInt(IF value = <<>> THEN <<"7">> ELSE value)
                 IN IF days.nan \/ days.mant < 1 THEN 7 ELSE days.mant

\* the calculations of PriceDisplay: a displayed price is the quotient
\* num / den, with den = 1 where the code does not divide
PriceCalculations(priceData, personCount, durationDays) ==
    LET baseTotal == priceData.total
        isPerPersonRate == priceData.type = "per-person"
        validPersonCount == IF personCount > 0 THEN personCount ELSE 1
        validDurationDays == IF durationDays > 0 THEN durationDays ELSE 1
        grandTotalCost == GrandTotalCost(priceData, personCount)
    IN [grandTotalCost |-> grandTotalCost,
        displayPricePerPerson |->
            IF isPerPersonRate THEN [num |-> baseTotal, den |-> 1]
            ELSE [num |-> grandTotalCost, den |-> validPersonCount],
        displayPricePerDay |-> [num |-> grandTotalCost, den |-> validDurationDays],
        displayPricePerPersonPerDay |->
            [num |-> grandTotalCost, den |-> validDurationDays * validPersonCount]]

\* The page holds the price column "cena", with or without a column of
\* persons and a column of days behind it, and one offer with any of a few
\* texts in each.
InitCard ==
    /\ db = InitDb
    /\ inflight = EmptyBag
    /\ last = NoLast
    /\ nreq = 0
    /\ priceString = <<>>
    /\ priceView = [kind |-> "none"]
    /\ flightString = <<>>
    /\ flightView = [kind |-> "none"]
    /\ ratingString = <<>>
    /\ ratingView = [kind |-> "none"]
    /\ LET Column(id, fieldId, label) ==
               [id |-> id, fieldId |-> fieldId, label |-> label, order |-> id]
           Counts == {<<>>, <<"0">>, <<"2">>, <<"-", "3">>, <<"x">>, <<"2", ".", "5">>, <<" ", "4">>, <<"2", " ", "o", "s">>}
           Prices == {<<>>, <<"5">>, <<"2", ".", "5">>, <<"{", "\"", "t", "o", "t", "a", "l", "\"", ":", "5", ",", "\"", "t", "y", "p", "e", "\"", ":", "\"", "p", "e", "r", "-", "p", "e", "r", "s", "o", "n", "\"", "}">>}
           Values(cols) ==
               UNION {[F -> Counts] : F \in SUBSET {cols[j].fieldId : j \in DOMAIN cols}}
       IN \E label \in {<<"C", "e", "n", "a">>, <<"C", "e", "n", "a", "/", "o", "s", "o", "b", "a">>},
             persons \in {<<>>, <<Column(2, <<"o", "s", "o", "b", "y">>, <<"O", "s", "o", "b", "y">>)>>,
                          <<Column(2, <<"i", "l", "e">>, <<"L", "i", "c", "z", "b", "a", " ", "o", "s", "o", "b">>)>>},
             days \in {<<>>, <<Column(3, <<"d", "n", "i">>, <<"D", "n", "i">>)>>,
                       <<Column(3, <<"p", "o", "b", "y", "t">>, <<"N", "o", "c", "e">>)>>},
             price \in Prices :
             /\ columns = <<Column(1, <<"c", "e", "n", "a">>, label)>> \o persons \o days
             /\ \E values \in Values(persons \o days) :
                   offers = <<[id |-> 1, values |-> (<<"c", "e", "n", "a">> :> price) @@ values]>>
    /\ event = NoEvent
    /\ cells = <<>>
    /\ priceState = Null
    /\ priceEdit = [kind |-> "none", pending |-> FALSE, n |-> 0]

\* the page renders the card: the price cell gets the offer's person count
\* and duration, and PriceDisplay calculates the prices it shows
RenderCard ==
    /\ cells = <<>>
    /\ cells' =
          [i \in DOMAIN offers |->
              [j \in DOMAIN columns |->
                  LET col == columns[j]
                      offer == offers[i]
                      value == IF col.fieldId \in DOMAIN offer.values
                               THEN offer.values[col.fieldId] ELSE <<>>
                      personCount == getPersonCount(offer)
                      durationDays == getDurationDays(offer)
                      priceData == ParsePrice(value, col.label)
                  IN IF Cell(col, offer).component = "PriceDisplay"
                     THEN Cell(col, offer) @@
                          [value |-> value, personCount |-> personCount,
                           durationDays |-> durationDays, priceData |-> priceData] @@
                          PriceCalculations(priceData, personCount, durationDays)
                     ELSE Cell(col, offer)]]
    /\ UNCHANGED <<server, page, priceState, priceEdit, priceString, priceView, flightString, flightView,
                   ratingString, ratingView>>

SpecCard == InitCard /\ [][RenderCard]_vars

(***************************************************************************)
(* The page with one client.  What the user types and what the server      *)
(* stores are strings; slugify works on their characters, and Characters   *)
(* spells the strings that occur.                                          *)
(***************************************************************************)
Characters ==
    ("" :> <<>>)
    @@ (" " :> <<" ">>)
    @@ ("Cena" :> <<"C", "e", "n", "a">>)
    @@ ("cena" :> <<"c", "e", "n", "a">>)
    @@ (" 0 " :> <<" ", "0", " ">>)
    @@ ("0" :> <<"0">>)
    @@ ("!!!" :> <<"!", "!", "!">>)

\* slugify; Date.now() is written 0
slugify(label) ==
    IF label = <<>> THEN <<"c", "o", "l", "-", "0">>
    ELSE LET lower == Trim(ToLowerCase(label))
             Kept(i) ==
                 IsDigit(lower[i]) \/ \E k \in DOMAIN LowerCase : LowerCase[k] = lower[i]
             \* .replace(/[^a-z0-9]+/g, "-"): a hyphen for each run
             dashed ==
                 Flatten([i \in DOMAIN lower |->
                             IF Kept(i) THEN <<lower[i]>>
                             ELSE IF i = 1 \/ Kept(i - 1) THEN <<"-">>
                             ELSE <<>>])
             \* .replace(/^-+|-+$/g, "")
             inner == {i \in DOMAIN dashed : dashed[i] # "-"}
         IN IF inner = {} THEN <<>> ELSE SubSeq(dashed, Min(inner), Max(inner))

\* What a handler of the page leaves in event: the body of its request (NoBody
\* when it sent none), whether fetch was rejected, the status of the response
\* (0 without one), and how the fetchOffers that follows went ("none" when
\* the handler did not get to it).
Handled(handler, body, rejected, status, fetched) ==
    [handler |-> handler, body |-> body, rejected |-> rejected,
     status |-> status, fetched |-> fetched]

\* await fetchOffers() at the end of a handler, the store being d
Refetched(d, fetched) ==
    IF fetched = "failed" THEN <<>> ELSE OffersGET(d, FALSE).resp.payload

\* addColumn, with newColumnLabel as typed
addColumn ==
    \E typed \in {" ", "Cena", " 0 ", "!!!"}, fault \in {"none", "first", "second"},
       rejected \in BOOLEAN, fetched \in {"ok", "failed"} :
        LET label == Trim(Characters[typed])
            Text(cs) == CHOOSE a \in DOMAIN Characters : Characters[a] = cs
            body == ColumnBody("object", Text(slugify(label)), Text(label))
            out == ColumnsPOST(db, body, fault)
        IN IF label = <<>> \/ rejected
           THEN /\ event' = Handled("addColumn", IF label = <<>> THEN NoBody ELSE body,
                                    label # <<>>, 0, "none")
                /\ UNCHANGED <<server, display, columns, offers>>
           ELSE /\ Handle(Request("POST /api/columns", 0, "", body), out)
                \* if (newColumn && newColumn.id)
                /\ IF out.resp.error = ""
                   THEN /\ columns' = Append(columns, out.resp.payload)
                        /\ offers' = Refetched(out.db, fetched)
                        /\ event' = Handled("addColumn", body, FALSE, out.resp.status, fetched)
                   ELSE /\ event' = Handled("addColumn", body, FALSE, out.resp.status, "none")
                        /\ UNCHANGED <<columns, offers>>

\* removeColumn without setColumns
removeColumnMutant ==
    \E i \in DOMAIN columns, fault \in {"none", "first", "second"},
       rejected \in BOOLEAN, fetched \in {"ok", "failed"} :
        LET fieldId == columns[i].fieldId
            out == ColumnsDELETE(db, fieldId, fault)
        IN IF fieldId = "" \/ rejected
           THEN /\ event' = Handled("removeColumn", NoBody, fieldId # "", 0, "none")
                /\ UNCHANGED <<server, display, columns, offers>>
           ELSE /\ Handle(Request("DELETE /api/columns", 0, fieldId, NoBody), out)
                /\ columns' = columns
                /\ offers' = Refetched(out.db, fetched)
                /\ event' = Handled("removeColumn", NoBody, FALSE, out.resp.status, fetched)

\* removeColumn(col.fieldId) for a column of the list
removeColumn ==
    \E i \in DOMAIN columns, fault \in {"none", "first", "second"},
       rejected \in BOOLEAN, fetched \in {"ok", "failed"} :
        LET fieldId == columns[i].fieldId
            out == ColumnsDELETE(db, fieldId, fault)
        IN IF fieldId = "" \/ rejected
           THEN /\ event' = Handled("removeColumn", NoBody, fieldId # "", 0, "none")
                /\ UNCHANGED <<server, display, columns, offers>>
           ELSE /\ Handle(Request("DELETE /api/columns", 0, fieldId, NoBody), out)
                /\ columns' = SelectSeq(columns, LAMBDA c : c.fieldId # fieldId)
                /\ offers' = Refetched(out.db, fetched)
                /\ event' = Handled("removeColumn", NoBody, FALSE, out.resp.status, fetched)

\* updateCell(offer.id, col.fieldId, value) for a cell of a card
updateCell ==
    \E i \in DOMAIN offers, j \in DOMAIN columns, value \in {"", "5"},
       fault \in {"none", "first", "second"}, rejected \in BOOLEAN :
        LET offerId == offers[i].id
            fieldId == columns[j].fieldId
            updatedValues == (fieldId :> value) @@ offers[i].values
            body == OfferBody("object",
                              [k \in DOMAIN updatedValues |-> JStr(updatedValues[k])], <<>>)
            out == OfferPUT(db, offerId, body, fault)
        IN /\ fieldId # ""
           /\ offers' = [offers EXCEPT ![i].values = updatedValues]
           /\ IF rejected
              THEN /\ event' = Handled("updateCell", body, TRUE, 0, "none")
                   /\ UNCHANGED <<server, display>>
              ELSE /\ Handle(Request("PUT /api/offers/{id}", offerId, "", body), out)
                   /\ event' = Handled("updateCell", body, FALSE, out.resp.status, "none")
           /\ UNCHANGED columns

\* deleteOffer(offer.id) for a card
deleteOffer ==
    \E i \in DOMAIN offers, fail \in BOOLEAN, rejected \in BOOLEAN :
        LET offerId == offers[i].id
            out == OfferDELETE(db, offerId, fail)
        IN IF rejected
           THEN /\ event' = Handled("deleteOffer", NoBody, TRUE, 0, "none")
                /\ UNCHANGED <<server, display, columns, offers>>
           ELSE /\ Handle(Request("DELETE /api/offers/{id}", offerId, "", NoBody), out)
                /\ offers' = SelectSeq(offers, LAMBDA o : o.id # offerId)
                /\ event' = Handled("deleteOffer", NoBody, FALSE, out.resp.status, "none")
                /\ UNCHANGED columns

NextPage ==
    \/ addColumn
    \/ removeColumn
    \/ AddOffer
    \/ updateCell
    \/ deleteOffer

SpecPage == Init /\ [][NextPage]_vars

(***************************************************************************)
(* Claims                                                                  *)
(***************************************************************************)
PUT == "PUT /api/offers/{id}"

\* a step of SpecSeq that serves a request
Served == nreq' = nreq + 1

OtherOfferRows(b, id) == [r \in {x \in DOMAIN b : x.offerId # id} |-> b[r]]
OtherFieldRows(b, fieldId) == [r \in {x \in DOMAIN b : x.fieldId # fieldId} |-> b[r]]

\* the rows (fieldId k, String(V[k])), one per key k of the values V of a body
RowsOfValues(id, body) ==
    IF body.kind = "array"
    THEN {[offerId |-> id, fieldId |-> Digit[i], value |-> String(body.arr[i])] :
             i \in DOMAIN body.arr}
    ELSE {[offerId |-> id, fieldId |-> k, value |-> String(body.obj[k])] :
             k \in DOMAIN body.obj}

\* C1: when PUT /api/offers/{id} with values V answers 200, the offer existed,
\* its stored rows are exactly one (k, String(V[k])) per key k of V, and the
\* rows of every other offer, the offers and the columns are as before.
C1_PutReplacesValueSet ==
    [][(Served /\ last'.req.op = PUT /\ last'.resp.status = 200) =>
        LET id == last'.req.id
        IN /\ id \in OfferIds(db)
           /\ [r \in {x \in DOMAIN db'.offer_values : x.offerId = id} |->
                  db'.offer_values[r]] = SetToBag(RowsOfValues(id, last'.req.body))
           /\ OtherOfferRows(db'.offer_values, id) = OtherOfferRows(db.offer_values, id)
           /\ db'.offers = db.offers
           /\ db'.columns = db.columns]_vars

\* a PUT of {cena: 5} answered 200 while another offer holds values
C1_Witness ==
    /\ last.req.op = PUT
    /\ last.resp.status = 200
    /\ last.req.body.kind = "object"
    /\ DOMAIN last.req.body.obj = {"cena"}
    /\ last.req.body.obj["cena"] = JNum(5)
    /\ RowsOfOffer(db, last.req.id) = {[offerId |-> last.req.id, fieldId |-> "cena", value |-> "5"]}
    /\ \E r \in Rows(db) : r.offerId # last.req.id

\* C2: when DELETE /api/columns?fieldId=f answers success, no column has
\* fieldId f, no offer value has fieldId f, and the other columns, the values
\* of other fields and the offers are as before.
C2_ColumnDeleteCascades ==
    [][(Served /\ last'.req.op = "DELETE /api/columns" /\ last'.resp.status = 200) =>
        LET f == last'.req.fieldId
        IN /\ f \notin ColumnFieldIds(db')
           /\ \A r \in Rows(db') : r.fieldId # f
           /\ db'.columns = {c \in db.columns : c.fieldId # f}
           /\ OtherFieldRows(db'.offer_values, f) = OtherFieldRows(db.offer_values, f)
           /\ db'.offer_values = OtherFieldRows(db.offer_values, f)
           /\ db'.offers = db.offers]_vars

\* a column delete answered with success while values of another field remain
C2_Witness ==
    /\ last.req.op = "DELETE /api/columns"
    /\ last.resp.status = 200
    /\ last.req.fieldId = "cena"
    /\ \E r \in Rows(db) : r.fieldId = "0"

\* C3: in every reachable state every stored offer value's fieldId is the
\* fieldId of an existing column.
C3_ValuesReferenceColumns ==
    \A r \in Rows(db) : r.fieldId \in ColumnFieldIds(db)

\* C4: when PUT /api/offers/{id} for an existing offer stops after its
\* deleteMany returned and before its update did (the process dies, or the
\* update throws), the offer still exists and has no stored value.
C4_PutStoppedLeavesNoValues ==
    [][(Served /\ last'.req.op = PUT /\ last'.calls = 1 /\ last'.req.id \in OfferIds(db)) =>
        /\ last'.resp.status # 200
        /\ last'.req.id \in OfferIds(db')
        /\ RowsOfOffer(db', last'.req.id) = {}
        /\ OtherOfferRows(db'.offer_values, last'.req.id)
             = OtherOfferRows(db.offer_values, last'.req.id)]_vars

\* a PUT of a non-empty object to an existing offer, stopped by a crash
\* between its two ORM calls
C4_Witness ==
    /\ last.req.op = PUT
    /\ last.threw = "crash"
    /\ last.calls = 1
    /\ last.req.id \in OfferIds(db)
    /\ last.req.body.kind = "object"
    /\ DOMAIN last.req.body.obj # {}

\* C5: every stored offer value belongs to an existing offer, and once
\* DELETE /api/offers/{id} has answered success no value of that offer is stored.
C5_OfferDeleteCascades ==
    /\ \A r \in Rows(db) : r.offerId \in OfferIds(db)
    /\ (last.req.op = "DELETE /api/offers/{id}" /\ last.resp.status = 200) =>
          /\ last.req.id \notin OfferIds(db)
          /\ RowsOfOffer(db, last.req.id) = {}

\* an offer delete answered with success while another offer holds values
C5_Witness ==
    /\ last.req.op = "DELETE /api/offers/{id}"
    /\ last.resp.status = 200
    /\ Rows(db) # {}

UniqueRows(d) ==
    /\ \A r \in DOMAIN d.offer_values : d.offer_values[r] = 1
    /\ \A r1, r2 \in Rows(d) :
          (r1.offerId = r2.offerId /\ r1.fieldId = r2.fieldId) => r1 = r2

\* the invocation r in flight takes its last step (the process does not die)
Finishes(r) == inflight' = inflight (-) SetToBag({r}) /\ last'.threw # "crash"

\* C6: at most one offer value is stored for each (offerId, fieldId), under
\* any interleaving; the update of a PUT that would store a second row for a
\* pair is answered 500 and stores nothing.
C6_OneValuePerOfferField ==
    [][/\ UniqueRows(db')
       /\ \A r \in InFlight(PUT) :
            (/\ Finishes(r)
             /\ r.id \in OfferIds(db)
             /\ \E e \in RowsOfValues(r.id, r.body) :
                   \E x \in RowsOfOffer(db, r.id) : x.fieldId = e.fieldId)
            => (last'.resp.status = 500 /\ db' = db)]_vars

\* a PUT whose update met the unique index, the offer keeping the other
\* PUT's value
C6_Witness ==
    /\ last.req.op = PUT
    /\ last.threw = "P2002"
    /\ RowsOfOffer(db, last.req.id) # {}

UniqueColumns(d) ==
    \A c1, c2 \in d.columns : c1.fieldId = c2.fieldId => c1 = c2

\* C7: no two columns share a fieldId, under any interleaving; the create of
\* a POST /api/columns whose fieldId a column already has is answered 500
\* and leaves the columns as they are.
C7_ColumnFieldIdUnique ==
    [][/\ UniqueColumns(db')
       /\ \A r \in InFlight("POST /api/columns") :
            (Finishes(r) /\ r.body.fieldId \in ColumnFieldIds(db))
            => (last'.resp.status = 500 /\ db'.columns = db.columns)]_vars

\* a POST /api/columns whose create met the unique index
C7_Witness ==
    /\ last.req.op = "POST /api/columns"
    /\ last.threw = "P2002"
    /\ last.resp.status = 500
    /\ Cardinality(db.columns) = 1

\* a body that is not parseable JSON, is JSON null, or lacks a required
\* member or has it of a wrong type
MalformedBody(r) ==
    IF r.op = "POST /api/columns"
    THEN \/ r.body.kind \in {"unparseable", "null"}
         \/ r.body.fieldId = Undefined
         \/ r.body.label = Undefined
    ELSE r.body.kind \in {"unparseable", "null", "missing", "scalar", "valuesnull"}

\* C8: a malformed body sent to POST /api/offers, PUT /api/offers/{id} or
\* POST /api/columns is answered 400.
C8_MalformedBodyIs400 ==
    (/\ last.req.op \in {"POST /api/offers", PUT, "POST /api/columns"}
     /\ last.threw # "crash"
     /\ MalformedBody(last.req))
    => last.resp.status = 400

OrmCodes == {"P2002", "P2025", "validation", "unavailable"}

\* C9: a request during which an ORM call threw is answered 500 with the
\* fixed error message of its handler, and every request served without a
\* crash has a response.
C9_OrmExceptionIs500 ==
    /\ last.threw \in OrmCodes =>
          (last.resp.status = 500 /\ last.resp.error = ErrorMessage(last.req.op))
    /\ (last.req.op # "idle" /\ last.threw # "crash") =>
          last.resp.status \in {200, 201, 400, 500}

\* the second ORM call of DELETE /api/columns threw
C9_Witness ==
    /\ last.req.op = "DELETE /api/columns"
    /\ last.threw \in OrmCodes
    /\ last.calls = 1
    /\ last.resp.status = 500

\* a price string that is not blank, is no JSON object with a total, and
\* holds no parsable number
MalformedPrice(s) ==
    /\ Trim(s) # <<>>
    /\ ParseFloat(KeepNumeric(s)).nan

\* C10: for a malformed non-blank price string, parsePrice throws nothing and
\* display mode shows the raw string.
C10_MalformedPriceShownRaw ==
    (priceView # NoView /\ priceView.kind # "editor" /\ MalformedPrice(priceString)) =>
        /\ ~priceView.threw
        /\ priceView.kind = "raw"
        /\ priceView.text = priceString

\* the flight pattern: three letters, optionally a date dd.dd and a time
\* dd:dd, an arrow or a hyphen at position a, three letters at position b,
\* with any blanks between the parts
MatchesFlightPattern(s) ==
    LET Blank(i, j) == \A k \in i..j : s[k] = " "
        Letters(i) ==
            \A k \in i..(i + 2) :
                \E c \in DOMAIN UpperCase : s[k] \in {UpperCase[c], LowerCase[c]}
        Digits(i, sep) ==
            /\ \A k \in {i, i + 1, i + 3, i + 4} : IsDigit(s[k])
            /\ s[i + 2] = sep
    IN \E a \in 4..(Len(s) - 3) : \E b \in (a + 1)..(Len(s) - 2) :
          /\ Letters(1) /\ s[a] \in {"U+2192", "-"} /\ Blank(a + 1, b - 1) /\ Letters(b)
          /\ \/ Blank(4, a - 1)
             \/ \E d \in 4..(a - 10) : \E t \in (d + 5)..(a - 5) :
                   /\ Blank(4, d - 1) /\ Digits(d, ".") /\ Blank(d + 5, t - 1)
                   /\ Digits(t, ":") /\ Blank(t + 5, a - 1)

\* C11: for a non-blank string that does not match the flight pattern,
\* parseFlight throws nothing and returns empty from and to and the trimmed
\* input as rawString, and display mode shows that raw string; for a blank
\* string it returns null and the placeholder is shown.
C11_UnmatchedFlightShownRaw ==
    (flightView # NoView /\ flightView.kind # "editor") =>
        /\ Trim(flightString) = <<>> =>
              (flightView.flight = Null /\ flightView.kind = "placeholder")
        /\ (Trim(flightString) # <<>> /\ ~MatchesFlightPattern(Trim(flightString))) =>
              /\ flightView.flight =
                    [from |-> <<>>, to |-> <<>>, rawString |-> Trim(flightString)]
              /\ flightView.kind = "raw"
              /\ flightView.text = Trim(flightString)

\* a date without a time between the airports, padded with blanks: shown raw
C11_Witness ==
    /\ flightView # NoView
    /\ flightView.kind = "raw"
    /\ Len(flightString) > Len(Trim(flightString))
    /\ Includes(flightString, <<"W", "A", "W", "1", "5", ".", "0", "9", "-">>)

\* a character of the class [0-9,.]
RatingClass(c) == IsDigit(c) \/ c \in {",", "."}

\* the star pattern: a star, blanks, a character of the class
MatchesStarPattern(s) ==
    \E i \in DOMAIN s : \E j \in (i + 1)..Len(s) :
        /\ s[i] = "U+2605"
        /\ \A k \in (i + 1)..(j - 1) : s[k] = " "
        /\ RatingClass(s[j])

\* the score/max pattern: a slash between two characters of the class
MatchesScorePattern(s) ==
    \E i \in 2..(Len(s) - 1) :
        RatingClass(s[i - 1]) /\ s[i] = "/" /\ RatingClass(s[i + 1])

\* C12: once the rating is parsed, a non-blank string that matches neither
\* the star pattern nor the score/max pattern, and a matching string whose
\* score is 0 or no number, is shown in display mode as the trimmed raw
\* string (parseRating throws nothing); the star bar is shown only for a
\* matching string with a non-zero numeric score.
C12_UnmatchedRatingShownRaw ==
    LET s == Trim(ratingString)
        rating == ratingView.rating
        matches == MatchesStarPattern(s) \/ MatchesScorePattern(s)
    IN (ratingView # NoView /\ ratingView.parsed /\ ratingView.kind # "editor") =>
          /\ (s # <<>> /\ ~matches) =>
                /\ rating = [rawString |-> s]
                /\ ratingView.kind = "raw"
                /\ ratingView.text = s
          /\ (s # <<>> /\ matches /\ (rating.score.nan \/ rating.score.mant = 0)) =>
                (ratingView.kind = "raw" /\ ratingView.text = s)
          /\ ratingView.kind = "stars" =>
                /\ matches
                /\ ~rating.score.nan /\ rating.score.mant # 0
                /\ \E i \in DOMAIN s : IsDigit(s[i]) /\ s[i] # "0"

\* a padded string that matches the score/max pattern with the score 0,
\* shown raw
C12_Witness ==
    /\ ratingView # NoView
    /\ ratingView.parsed
    /\ ratingView.kind = "raw"
    /\ Len(ratingString) > Len(Trim(ratingString))
    /\ MatchesScorePattern(ratingString)
    /\ ~ratingView.rating.score.nan

\* C13: in every reachable state each offer holds exactly one stored value
\* for every existing column, whether the column was created before or
\* after the offer.
C13_OneValuePerColumn ==
    \A id \in OfferIds(db) : \A f \in ColumnFieldIds(db) :
        /\ Cardinality({r \in RowsOfOffer(db, id) : r.fieldId = f}) = 1
        /\ \A r \in RowsOfOffer(db, id) : r.fieldId = f => db.offer_values[r] = 1

\* a request that validation rejects: values missing, null or no object,
\* or no fieldId parameter
FailsValidation(r) ==
    \/ /\ r.op \in {"POST /api/offers", PUT}
       /\ r.body.kind \in {"missing", "valuesnull", "scalar"}
    \/ r.op = "DELETE /api/columns" /\ r.fieldId = Undefined

\* C14: validation precedes every write: a POST /api/offers or PUT
\* /api/offers/{id} whose values is missing, null or not an object, and a
\* DELETE /api/columns without fieldId, is answered 400 with no ORM call
\* made, the columns, offers and values left as they were.
C14_ValidationPrecedesWrites ==
    [][(Served /\ FailsValidation(last'.req)) =>
        /\ last'.resp.status = 400
        /\ last'.calls = 0
        /\ last'.threw = "none"
        /\ db' = db]_vars

\* a PUT with values null to an offer that holds values, answered 400
C14_Witness ==
    /\ last.req.op = PUT
    /\ last.req.body.kind = "valuesnull"
    /\ last.resp.status = 400
    /\ RowsOfOffer(db, last.req.id) # {}

\* the values map {k: String(V[k])} of a body's values V
StringValues(body) ==
    LET rows == RowsOfValues(0, body)
    IN [f \in {r.fieldId : r \in rows} |-> (CHOOSE r \in rows : r.fieldId = f).value]

\* C15: POST /api/offers with a values object V, when no ORM call fails, is
\* answered 201 with a new id and the values {k: String(V[k])} for exactly
\* the keys of V; a GET /api/offers that follows it with no write in
\* between lists that offer first, with the same id and values.
C15_OfferRoundTrip ==
    [][/\ (/\ Served /\ last'.req.op = "POST /api/offers"
           /\ last'.req.body.kind \in {"object", "array"}
           /\ last'.threw = "none") =>
              /\ last'.resp.status = 201
              /\ last'.resp.payload.id \notin OfferIds(db)
              /\ last'.resp.payload.id \in OfferIds(db')
              /\ last'.resp.payload.values = StringValues(last'.req.body)
       /\ (/\ Served /\ last.req.op = "POST /api/offers" /\ last.resp.status = 201
           /\ last'.req.op = "GET /api/offers" /\ last'.resp.status = 200) =>
              /\ Len(last'.resp.payload) = Len(db.offers)
              /\ last'.resp.payload[1] = last.resp.payload]_vars

\* a GET that lists two offers, the newer one first with its value "5"
C15_Witness ==
    /\ last.req.op = "GET /api/offers"
    /\ last.resp.status = 200
    /\ Len(db.offers) = 2
    /\ last.resp.payload[1].id = db.offers[2]
    /\ last.resp.payload[1].values = [cena |-> "5"]
    /\ last.resp.payload[2].values # [cena |-> "5"]

\* C16: addOffer sends no POST and adds no offer when the local column list
\* is empty; otherwise the body's values has exactly one key for each
\* fieldId of the local list, each with the empty string, and the local
\* offers change only by the returned offer put in front, and only when a
\* response with an id (201) came back.
C16_AddOffer ==
    [][event'.handler = "addOffer" =>
        IF columns = <<>>
        THEN /\ event'.body = NoBody
             /\ offers' = offers
             /\ <<db, last, nreq>>' = <<db, last, nreq>>
        ELSE /\ event'.body.kind = "object"
             /\ DOMAIN event'.body.obj = {columns[i].fieldId : i \in DOMAIN columns}
             /\ \A k \in DOMAIN event'.body.obj : event'.body.obj[k] = JStr("")
             /\ \/ offers' = offers
                \/ /\ ~event'.rejected
                   /\ last'.resp.status = 201
                   /\ last'.req.op = "POST /api/offers"
                   /\ offers' = <<last'.resp.payload>> \o offers]_vars

\* C17: a column whose fieldId or label contains (in any case of letters)
\* one of 'ocena', 'rating', 'review', 'score', 'note' is no price field,
\* whatever price keywords it contains, and its cell is never a
\* PriceDisplay; the cell of a column labelled 'Ocena' is a RatingDisplay.
C17_NegativeKeywordsBeatPrice ==
    \A i \in DOMAIN cells : \A j \in DOMAIN cells[i] :
        LET col == columns[j]
            isNegative(s) ==
                \E k \in {<<"o", "c", "e", "n", "a">>, <<"r", "a", "t", "i", "n", "g">>,
                           <<"r", "e", "v", "i", "e", "w">>, <<"s", "c", "o", "r", "e">>,
                           <<"n", "o", "t", "e">>} :
                    Includes(ToLowerCase(s), k)
        IN /\ isNegative(col.fieldId) \/ isNegative(col.label) =>
                /\ ~isPriceField(col.fieldId, col.label)
                /\ cells[i][j].component # "PriceDisplay"
           /\ col.label = <<"O", "c", "e", "n", "a">> /\ cells[i][j].component # "none" =>
                cells[i][j].component = "RatingDisplay"

\* the cell of a column 'Ocena' (a label that contains 'cena') was rendered
C17_Witness ==
    /\ cells # <<>>
    /\ columns[1].label = <<"O", "c", "e", "n", "a">>
    /\ Includes(ToLowerCase(columns[1].label), <<"c", "e", "n", "a">>)
    /\ cells[1][1].component = "RatingDisplay"

\* C18: in the price editor, from an empty value on: whenever type is
\* 'breakdown' the total is the sum of the breakdown's numbers; every edit
\* of a breakdown entry sets type to 'breakdown'; an edit of the total made
\* while type is 'breakdown' leaves a type other than 'breakdown'.
C18_BreakdownTotal ==
    [][LET Exact(v) == IF v = Null THEN 0 ELSE v.mant * Pow10(2 - v.scale)
           Entry(d, k) ==
               IF "breakdown" \in DOMAIN d /\ k \in DOMAIN d.breakdown
               THEN Exact(d.breakdown[k]) ELSE 0
           Consistent(d) ==
               d.type = "breakdown" =>
                   Exact(d.total) =
                       Entry(d, "flights") + Entry(d, "accommodation") + Entry(d, "food")
                       + Entry(d, "transport") + Entry(d, "activities")
                       + Entry(d, "climate") + Entry(d, "other")
       IN /\ Consistent(priceState) /\ Consistent(priceState')
          /\ priceEdit'.kind = "breakdown" => priceState'.type = "breakdown"
          /\ priceEdit'.kind = "total" /\ priceState.type = "breakdown" =>
                priceState'.type # "breakdown"]_vars

\* the total 7.5 of the entries 5 and 2.5, written and read again
C18_Witness ==
    /\ priceEdit.kind = "effect"
    /\ priceState.type = "breakdown"
    /\ priceState.breakdown.flights = Number(5, 0)
    /\ priceState.breakdown.food = Number(25, 1)
    /\ priceState.total = Number(75, 1)

\* C19 (as stated): for every price data d that updatePrice writes,
\* parsePrice(JSON.stringify(d)) has the same total, currency, type and
\* isAllInclusive as d, and the same breakdown entries, an entry that d
\* does not have being null.
C19_PriceRoundTrip ==
    priceEdit.kind \notin {"none", "effect"} =>
        LET d == priceState
            parsed == ParsePrice(priceString, <<"C", "e", "n", "a">>)
            Entry(b, k) == IF k \in DOMAIN b THEN b[k] ELSE Null
            Breakdown(x) == IF "breakdown" \in DOMAIN x THEN x.breakdown ELSE <<>>
        IN /\ parsed.total = d.total
           /\ parsed.currency = d.currency
           /\ parsed.type = d.type
           /\ ("isAllInclusive" \in DOMAIN parsed) = ("isAllInclusive" \in DOMAIN d)
           /\ "isAllInclusive" \in DOMAIN d => parsed.isAllInclusive = d.isAllInclusive
           /\ \A i \in DOMAIN BreakdownKeys :
                Entry(Breakdown(parsed), BreakdownKeys[i])
                    = Entry(Breakdown(d), BreakdownKeys[i])

\* C19 (amended): the same, with an isAllInclusive that d does not have
\* read as false.
C19_PriceRoundTripAbsentAsFalse ==
    priceEdit.kind \notin {"none", "effect"} =>
        LET d == priceState
            parsed == ParsePrice(priceString, <<"C", "e", "n", "a">>)
            Entry(b, k) == IF k \in DOMAIN b THEN b[k] ELSE Null
            Breakdown(x) == IF "breakdown" \in DOMAIN x THEN x.breakdown ELSE <<>>
            Flag(x) == "isAllInclusive" \in DOMAIN x /\ x.isAllInclusive
        IN /\ parsed.total = d.total
           /\ parsed.currency = d.currency
           /\ parsed.type = d.type
           /\ "isAllInclusive" \in DOMAIN parsed
           /\ parsed.isAllInclusive = Flag(d)
           /\ \A i \in DOMAIN BreakdownKeys :
                Entry(Breakdown(parsed), BreakdownKeys[i])
                    = Entry(Breakdown(d), BreakdownKeys[i])

\* a price in EUR with the entries 5 and 2.5 and the all-inclusive flag
\* was written
C19_Witness ==
    /\ priceEdit.kind \notin {"none", "effect"}
    /\ priceState.currency = "EUR"
    /\ "isAllInclusive" \in DOMAIN priceState /\ priceState.isAllInclusive
    /\ "breakdown" \in DOMAIN priceState
    /\ priceState.breakdown.flights = Number(5, 0)
    /\ priceState.total # Number(0, 0)
    /\ Len(priceString) > 100

C21_OptionalFlightParts ==
    flightView # NoView =>
        LET s == Trim(flightString)
            Letters(i) ==
                /\ i + 2 <= Len(s)
                /\ \A k \in i..(i + 2) :
                      \E c \in DOMAIN UpperCase : s[k] \in {UpperCase[c], LowerCase[c]}
            Digits(i, sep) ==
                /\ i + 4 <= Len(s)
                /\ \A k \in {i, i + 1, i + 3, i + 4} : IsDigit(s[k])
                /\ s[i + 2] = sep
            Part(present, at, member) ==
                IF present
                THEN member \in DOMAIN flightView.flight
                     /\ flightView.flight[member] = SubSeq(s, at, at + 4)
                ELSE member \notin DOMAIN flightView.flight
            d == SkipSpaces(s, 4)
            hasDate == Digits(d, ".")
            t == SkipSpaces(s, IF hasDate THEN d + 5 ELSE d)
            hasTime == Digits(t, ":")
            a == SkipSpaces(s, IF hasTime THEN t + 5 ELSE t)
            b == SkipSpaces(s, a + 1)
            r == SkipSpaces(s, b + 3)
        IN (Letters(1) /\ a <= Len(s) /\ s[a] \in {"U+2192", "-"} /\ Letters(b)) =>
              /\ flightView.flight # Null
              /\ "rawString" \notin DOMAIN flightView.flight
              /\ flightView.flight.from = SubSeq(s, 1, 3)
              /\ flightView.flight.to = SubSeq(s, b, b + 2)
              /\ Part(hasDate, d, "date")
              /\ Part(hasTime, t, "departureTime")
              /\ Part(Digits(r, ":"), r, "arrivalTime")

\* C22: PUT /api/offers/{id} requests for the same offer, interleaved at
\* their ORM calls, leave the values of one of them.  When a PUT whose
\* deleteMany has run answers 200, the offer's stored values are the values
\* of its own body, or (unchanged by it) those that another PUT stored in
\* the meantime, never a mixture of the two.
C22_NoMixtureOfPuts ==
    [][\A r \in InFlight("PUT /api/offers/{id}") :
          (/\ inflight' = inflight (-) SetToBag({r})
           /\ last'.req = Summary(r)
           /\ last'.resp.status = 200)
          => \/ RowsOfOffer(db', r.id) = {Row(r.id, e) : e \in ObjectEntries(r.body)}
             \/ RowsOfOffer(db', r.id) = RowsOfOffer(db, r.id)]_vars

\* C23: a request answered with 500 leaves the persisted columns, offers and
\* offer values as they were before it; in particular a PUT /api/offers/{id}
\* for an unknown id and a DELETE /api/columns for a fieldId that no column
\* has change nothing.
C23_ErrorLeavesStoreUnchanged ==
    [][LET Same ==
               /\ db'.columns = db.columns
               /\ db'.offers = db.offers
               /\ db'.offer_values = db.offer_values
       IN /\ (nreq' = nreq + 1 /\ last'.resp.status = 500) => Same
          /\ (/\ nreq' = nreq + 1
              /\ last'.threw # "crash"
              /\ \/ last'.req.op = PUT /\ last'.req.id \notin OfferIds(db)
                 \/ /\ last'.req.op = "DELETE /api/columns"
                    /\ last'.req.fieldId \notin ColumnFieldIds(db) \cup {Undefined})
             => Same]_vars


\* C24: with one client whose requests are issued one at a time, a handler of
\* the page (addColumn, removeColumn, addOffer, updateCell, deleteOffer) that
\* starts with the local columns and offers equal to what GET /api/columns and
\* GET /api/offers return, and whose requests all succeed, ends with the two
\* lists equal, in content and order, to what the two GETs return then.
C24_ListsEqualGets ==
    [][LET Equal(cols, offs, d) ==
               /\ cols = ByOrder(ColumnsGET(d, FALSE).resp.payload)
               /\ offs = OffersGET(d, FALSE).resp.payload
       IN (/\ Equal(columns, offers, db)
           /\ event'.handler \in {"addColumn", "removeColumn", "addOffer",
                                   "updateCell", "deleteOffer"}
           /\ ~event'.rejected
           /\ nreq' = nreq + 1 => last'.resp.status \in {200, 201}
           /\ event'.handler \in {"addColumn", "removeColumn"} => event'.fetched # "failed")
          => Equal(columns', offers', db')]_vars

\* a cell was edited, the PUT answered 200, and the lists equal the GETs
C24_Witness ==
    /\ event.handler = "updateCell"
    /\ event.status = 200
    /\ Len(offers) = 1
    /\ \E f \in DOMAIN offers[1].values : offers[1].values[f] = "5"
    /\ columns = ByOrder(ColumnsGET(db, FALSE).resp.payload)
    /\ offers = OffersGET(db, FALSE).resp.payload

\* C25: when the DELETE request of deleteOffer or of removeColumn is answered
\* with an error status (400 or 500), deleteOffer leaves the local offers list
\* and removeColumn the local columns list as it was, so that no offer and no
\* column that the server still stores leaves the local lists.
C25_ErrorKeepsLocalItem ==
    [][(/\ event'.handler \in {"deleteOffer", "removeColumn"}
        /\ ~event'.rejected
        /\ event'.status \in {400, 500})
       => /\ event'.handler = "deleteOffer" => offers' = offers
          /\ event'.handler = "removeColumn" => columns' = columns
          /\ \A i \in DOMAIN offers :
                 offers[i].id \in OfferIds(db')
                 => \E j \in DOMAIN offers' : offers'[j].id = offers[i].id
          /\ \A i \in DOMAIN columns :
                 columns[i].fieldId \in ColumnFieldIds(db')
                 => \E j \in DOMAIN columns' : columns'[j].fieldId = columns[i].fieldId]_vars

\* C26: for every label that addColumn accepts (not empty once trimmed), the
\* fieldId that slugify returns and addColumn sends is not empty, is made of
\* a-z, 0-9 and hyphens only, and has hyphens neither at its ends nor next to
\* one another; so every column of the local list that addColumn put there
\* has a fieldId that removeColumn and DELETE /api/columns accept.
C26_SlugIsUsableFieldId ==
    /\ (event.handler = "addColumn" /\ event.body # NoBody) =>
           LET fieldId == Characters[event.body.fieldId]
           IN /\ fieldId # <<>>
              /\ \A i \in DOMAIN fieldId :
                     \/ IsDigit(fieldId[i])
                     \/ \E k \in DOMAIN LowerCase : LowerCase[k] = fieldId[i]
                     \/ /\ fieldId[i] = "-"
                        /\ 1 < i /\ i < Len(fieldId)
                        /\ fieldId[i + 1] # "-"
    /\ \A i \in DOMAIN columns :
           /\ columns[i].fieldId # ""
           /\ ColumnsDELETE(db, columns[i].fieldId, "none").resp.status # 400

=========================================================================
